---- MODULE Spec2Model ----
(***************************************************************************)
(* Browser management keywords of Selenium2Library                         *)
(* (src/Selenium2Library/keywords/browsermanagement.py): the browser       *)
(* cache, the open / close / switch keywords, the session save / restore   *)
(* keywords and the timeout broadcast.                                     *)
(*                                                                         *)
(* Encoding of Python values.  A handle (a WebDriver object) is its        *)
(* construction number 1, 2, ...; object identity is that number.  Texts   *)
(* stored in drivers and session files are tuples: <<>> is the empty       *)
(* string, <<"sid", k>> a session id, <<"url", k>> a server URL,           *)
(* <<"num", n>> the decimal text of n.  <<"int", n>> is the integer n and  *)
(* <<"None">> is None.  Aliases and keyword arguments typed by the user    *)
(* are TLA+ strings; browser names are sequences of one-character strings. *)
(***************************************************************************)
EXTENDS Integers, Sequences, FiniteSets, TLC

\* Number of WebDriver objects constructed in one run.
MaxHandles == 3

VARIABLES
    cache,                  \* self._cache: browsers, aliases, current, closed
    drivers,                \* the WebDriver objects constructed so far, by handle
    files,                  \* the working directory: file name -> lines
    timeout_in_secs,        \* self._timeout_in_secs
    implicit_wait_in_secs,  \* self._implicit_wait_in_secs
    calls,                  \* driver calls and file accesses of the last keyword
    result,                 \* the last keyword: name, arguments, return, error
    registered,             \* the registrations made since the last close_all_browsers
    speed_in_secs,          \* self._speed_in_secs
    DesiredCapabilities     \* webdriver.DesiredCapabilities: the entries written
                            \* over each family's defaults since the import

vars == <<cache, drivers, files, timeout_in_secs, implicit_wait_in_secs,
          calls, result, registered, speed_in_secs, DesiredCapabilities>>

----------------------------------------------------------------------------
\* Python values

None == <<"None">>
EmptyStr == <<>>
PyInt(n) == <<"int", n>>
Num(n) == <<"num", n>>
Sid(k) == <<"sid", k>>
Url(k) == <<"url", k>>

\* "%s" % v for the values written to a session file
Format(v) == IF v = None THEN <<"str", "None">>
             ELSE IF Len(v) = 2 /\ v[1] = "int" THEN Num(v[2])
             ELSE v

\* The alias parameter's default, None
NoAlias == "<None>"

\* Decimal numerals of the indices a run can produce
Digits == <<"1", "2", "3", "4", "5", "6", "7", "8">>

\* "%s" % index
ToStr(n) == Digits[n]

\* int(index_or_alias); 0 stands for the ValueError of a non-numeric text
IntOf(s) == IF \E n \in 1..Len(Digits) : Digits[n] = s
            THEN CHOOSE n \in 1..Len(Digits) : Digits[n] = s
            ELSE 0

NoError == <<>>

----------------------------------------------------------------------------
\* Selenium2Library.utils.BrowserCache

NoCurrent == 0

NoAliases == [a \in {} |-> 0]

EmptyCache == [browsers |-> <<>>, aliases |-> NoAliases,
               current |-> NoCurrent, closed |-> {}]

\* cache.current_index: the index of the current handle, 0 when none
current_index(c) ==
    IF \E i \in 1..Len(c.browsers) : c.browsers[i] = c.current
    THEN CHOOSE i \in 1..Len(c.browsers) : c.browsers[i] = c.current
    ELSE 0

\* the index cache.register(handle, alias) returns
register_index(c) == Len(c.browsers) + 1

\* cache.register(handle, alias): append, bind the alias, make current
register(c, h, alias) ==
    [browsers |-> Append(c.browsers, h),
     aliases  |-> IF alias = NoAlias THEN c.aliases
                  ELSE [a \in (DOMAIN c.aliases) \cup {alias} |->
                          IF a = alias THEN register_index(c) ELSE c.aliases[a]],
     current  |-> h,
     closed   |-> c.closed]

\* a lookup that tries the integer index before the alias
resolve_index_or_alias(c, x) ==
    IF IntOf(x) \in 1..Len(c.browsers) THEN IntOf(x)
    ELSE IF x \in DOMAIN c.aliases THEN c.aliases[x]
    ELSE 0

\* alias first, else integer index; 0 when neither resolves
resolve_alias_or_index(c, x) ==
    IF x \in DOMAIN c.aliases THEN c.aliases[x]
    ELSE IF IntOf(x) \in 1..Len(c.browsers) THEN IntOf(x)
    ELSE 0

\* cache.get_connection(index_or_alias): the live handle, 0 when not found
get_connection(c, x) ==
    LET i == resolve_alias_or_index(c, x) IN
    IF i \in 1..Len(c.browsers) /\ c.browsers[i] \notin c.closed
    THEN c.browsers[i] ELSE NoCurrent

\* cache.switch(index_or_alias), when it resolves
switch(c, x) == [c EXCEPT !.current = get_connection(c, x)]

\* cache.get_open_browsers(): the handles not yet closed, in index order
get_open_browsers(c) == SelectSeq(c.browsers, LAMBDA h : h \notin c.closed)

\* cache.close(): the current handle leaves the active set
close(c) == [c EXCEPT !.current = NoCurrent,
                      !.closed = IF c.current = NoCurrent THEN @
                                 ELSE @ \cup {c.current}]

\* the handles cache.close() quits
close_quits(c) == IF c.current = NoCurrent THEN <<>> ELSE <<c.current>>

\* cache.close_all(): back to the empty cache
close_all(c) == EmptyCache

\* the handles cache.close_all() quits
close_all_quits(c) == get_open_browsers(c)

----------------------------------------------------------------------------
\* Browser names

UpperCase == <<"A", "B", "C", "D", "E", "F", "G", "H", "I", "J", "K", "L", "M",
               "N", "O", "P", "Q", "R", "S", "T", "U", "V", "W", "X", "Y", "Z">>
LowerCase == <<"a", "b", "c", "d", "e", "f", "g", "h", "i", "j", "k", "l", "m",
               "n", "o", "p", "q", "r", "s", "t", "u", "v", "w", "x", "y", "z">>

\* str.lower() on one character
lower_char(ch) ==
    IF \E i \in 1..Len(UpperCase) : UpperCase[i] = ch
    THEN LowerCase[CHOOSE i \in 1..Len(UpperCase) : UpperCase[i] = ch]
    ELSE ch

\* str.lower()
lower(s) == [i \in 1..Len(s) |-> lower_char(s[i])]

\* str.replace(' ', '')
remove_spaces(s) == SelectSeq(s, LAMBDA ch : ch # " ")

\* str.strip(): leading and trailing whitespace removed
IsSpace(ch) == ch \in {" ", "\t", "\n", "\r"}

strip(s) ==
    LET keep == {i \in 1..Len(s) : ~IsSpace(s[i])} IN
    IF keep = {} THEN <<>>
    ELSE LET lo == CHOOSE i \in keep : \A j \in keep : i <= j
             hi == CHOOSE i \in keep : \A j \in keep : j <= i
         IN SubSeq(s, lo, hi)

BROWSER_NAMES == {
    <<<<"f", "f">>, "_make_ff">>,
    <<<<"f", "i", "r", "e", "f", "o", "x">>, "_make_ff">>,
    <<<<"i", "e">>, "_make_ie">>,
    <<<<"i", "n", "t", "e", "r", "n", "e", "t",
        "e", "x", "p", "l", "o", "r", "e", "r">>, "_make_ie">>,
    <<<<"g", "o", "o", "g", "l", "e", "c", "h", "r", "o", "m", "e">>,
      "_make_chrome">>,
    <<<<"g", "c">>, "_make_chrome">>,
    <<<<"c", "h", "r", "o", "m", "e">>, "_make_chrome">>,
    <<<<"o", "p", "e", "r", "a">>, "_make_opera">>,
    <<<<"p", "h", "a", "n", "t", "o", "m", "j", "s">>, "_make_phantomjs">>,
    <<<<"h", "t", "m", "l", "u", "n", "i", "t">>, "_make_htmlunit">>,
    <<<<"h", "t", "m", "l", "u", "n", "i", "t", "w", "i", "t", "h", "j", "s">>,
      "_make_htmlunitwithjs">>,
    <<<<"a", "n", "d", "r", "o", "i", "d">>, "_make_android">>,
    <<<<"i", "p", "h", "o", "n", "e">>, "_make_iphone">>,
    <<<<"s", "a", "f", "a", "r", "i">>, "_make_safari">>,
    <<<<"e", "d", "g", "e">>, "_make_edge">>}

NoFunc == "<None>"

\* a lookup of the token as given: BROWSER_NAMES.get(browser_name)
get_browser_creation_function_as_given(browser_name) ==
    IF \E e \in BROWSER_NAMES : e[1] = browser_name
    THEN (CHOOSE e \in BROWSER_NAMES : e[1] = browser_name)[2]
    ELSE NoFunc

\* BROWSER_NAMES.get(browser_name.lower().replace(' ', ''))
get_browser_creation_function(browser_name) ==
    LET key == remove_spaces(lower(browser_name)) IN
    IF \E e \in BROWSER_NAMES : e[1] = key
    THEN (CHOOSE e \in BROWSER_NAMES : e[1] = key)[2]
    ELSE NoFunc

\* The creation functions that start webdriver.Remote when no remote_url is given
RemoteOnly == {"_make_htmlunit", "_make_htmlunitwithjs", "_make_android",
               "_make_iphone"}

\* Names of selenium.webdriver classes, for create_webdriver
WebDriverClasses == {
    <<"F", "i", "r", "e", "f", "o", "x">>,
    <<"C", "h", "r", "o", "m", "e">>,
    <<"R", "e", "m", "o", "t", "e">>}

----------------------------------------------------------------------------
\* Desired capabilities

\* a dict is a function from its keys to their values
EmptyDict == [k \in {} |-> <<>>]

\* d.update(e) on a dict d: the entries of e replace and extend those of d
update(d, e) == e @@ d

\* s.find(sep) + 1: the position of the first sep in s, 0 when there is none
find(s, sep) ==
    IF \E i \in 1..Len(s) : s[i] = sep
    THEN CHOOSE i \in 1..Len(s) :
            s[i] = sep /\ \A j \in 1..(i - 1) : s[j] # sep
    ELSE 0

\* s.split(sep)
RECURSIVE split(_, _)
split(s, sep) ==
    IF find(s, sep) = 0 THEN <<s>>
    ELSE <<SubSeq(s, 1, find(s, sep) - 1)>>
         \o split(SubSeq(s, find(s, sep) + 1, Len(s)), sep)

\* a split that cuts at every separator, where split(sep, 1) is called for
split_at_every(s, sep) == split(s, sep)

\* s.split(sep, 1)
split_1(s, sep) ==
    IF find(s, sep) = 0 THEN <<s>>
    ELSE <<SubSeq(s, 1, find(s, sep) - 1), SubSeq(s, find(s, sep) + 1, Len(s))>>

\* (key, value) = cap.split(":", 1) unpacks for every cap of the string
parses(capabilities_string) ==
    \/ capabilities_string = <<>>
    \/ \A i \in 1..Len(split(capabilities_string, ",")) :
          Len(split_1(split(capabilities_string, ",")[i], ":")) = 2

\* desired_capabilities[key.strip()] = value.strip() for each cap, in order
RECURSIVE assign_caps(_)
assign_caps(caps) ==
    IF caps = <<>> THEN EmptyDict
    ELSE LET pair == split_1(caps[Len(caps)], ":") IN
         update(assign_caps(SubSeq(caps, 1, Len(caps) - 1)),
                strip(pair[1]) :> strip(pair[2]))

\* _parse_capabilities_string(capabilities_string), where it parses
parse_capabilities_string(capabilities_string) ==
    IF capabilities_string = <<>> THEN EmptyDict
    ELSE assign_caps(split(capabilities_string, ","))

browserName == <<"b", "r", "o", "w", "s", "e", "r", "N", "a", "m", "e">>
platform == <<"p", "l", "a", "t", "f", "o", "r", "m">>

\* selenium's webdriver.DesiredCapabilities, as imported: the browser name
\* and platform of each family
DefaultCapabilities ==
    [FIREFOX |->
        (browserName :> <<"f", "i", "r", "e", "f", "o", "x">>)
        @@ (platform :> <<"A", "N", "Y">>),
     INTERNETEXPLORER |->
        (browserName :> <<"i", "n", "t", "e", "r", "n", "e", "t", " ", "e", "x", "p", "l", "o", "r", "e", "r">>)
        @@ (platform :> <<"W", "I", "N", "D", "O", "W", "S">>),
     CHROME |->
        (browserName :> <<"c", "h", "r", "o", "m", "e">>)
        @@ (platform :> <<"A", "N", "Y">>),
     OPERA |->
        (browserName :> <<"o", "p", "e", "r", "a">>)
        @@ (platform :> <<"A", "N", "Y">>),
     PHANTOMJS |->
        (browserName :> <<"p", "h", "a", "n", "t", "o", "m", "j", "s">>)
        @@ (platform :> <<"A", "N", "Y">>),
     HTMLUNIT |->
        (browserName :> <<"h", "t", "m", "l", "u", "n", "i", "t">>)
        @@ (platform :> <<"A", "N", "Y">>),
     HTMLUNITWITHJS |->
        (browserName :> <<"h", "t", "m", "l", "u", "n", "i", "t">>)
        @@ (platform :> <<"A", "N", "Y">>),
     ANDROID |->
        (browserName :> <<"a", "n", "d", "r", "o", "i", "d">>)
        @@ (platform :> <<"A", "N", "D", "R", "O", "I", "D">>),
     IPHONE |->
        (browserName :> <<"i", "P", "h", "o", "n", "e">>)
        @@ (platform :> <<"M", "A", "C">>),
     SAFARI |->
        (browserName :> <<"s", "a", "f", "a", "r", "i">>)
        @@ (platform :> <<"M", "A", "C">>),
     EDGE |->
        (browserName :> <<"M", "i", "c", "r", "o", "s", "o", "f", "t", "E", "d", "g", "e">>)
        @@ (platform :> <<"W", "I", "N", "D", "O", "W", "S">>)]

\* creation function -> the webdriver class it starts locally and the family
\* whose capabilities it gives to a remote session
CreationFunctions == {
    <<"_make_ff", "webdriver.Firefox", "FIREFOX">>,
    <<"_make_ie", "webdriver.Ie", "INTERNETEXPLORER">>,
    <<"_make_chrome", "webdriver.Chrome", "CHROME">>,
    <<"_make_opera", "webdriver.Opera", "OPERA">>,
    <<"_make_phantomjs", "webdriver.PhantomJS", "PHANTOMJS">>,
    <<"_make_htmlunit", "webdriver.Remote", "HTMLUNIT">>,
    <<"_make_htmlunitwithjs", "webdriver.Remote", "HTMLUNITWITHJS">>,
    <<"_make_android", "webdriver.Remote", "ANDROID">>,
    <<"_make_iphone", "webdriver.Remote", "IPHONE">>,
    <<"_make_safari", "webdriver.Safari", "SAFARI">>,
    <<"_make_edge", "webdriver.Edge", "EDGE">>}

webdriver_type(func) == (CHOOSE e \in CreationFunctions : e[1] = func)[2]

desired_cap_type(func) == (CHOOSE e \in CreationFunctions : e[1] = func)[3]

\* desired_capabilities as a string, as a dict, or None
CapString(s) == <<"str", s>>
CapDict(d) == <<"dict", d>>

\* type(desired_capabilities) in (str, unicode) and the string does not parse
capabilities_unparsable(desired_capabilities) ==
    desired_capabilities[1] = "str" /\ ~parses(desired_capabilities[2])

\* the dict given to update(): the parsed string, the dict, or {} for None
\* and for an empty dict
given_capabilities(desired_capabilities) ==
    IF desired_capabilities[1] = "str"
    THEN parse_capabilities_string(desired_capabilities[2])
    ELSE IF desired_capabilities[1] = "dict" THEN desired_capabilities[2]
    ELSE EmptyDict

\* webdriver.DesiredCapabilities before anything is written to it
NoWrites == [f \in DOMAIN DefaultCapabilities |-> EmptyDict]

\* webdriver.DesiredCapabilities.<family> after the writes made so far
capabilities_of(written, family) ==
    update(DefaultCapabilities[family], written[family])

\* a _create_remote_web_driver that updates capabilities_type itself
create_remote_web_driver_no_copy(written, capabilities_type, desired_capabilities) ==
    [desired_capabilities_object |->
        update(capabilities_of(written, capabilities_type),
               given_capabilities(desired_capabilities)),
     shared |-> [written EXCEPT ![capabilities_type] =
                    update(@, given_capabilities(desired_capabilities))]]

\* _create_remote_web_driver: the capabilities the remote session is created
\* with, and what is written to webdriver.DesiredCapabilities after the call.
\* The update is made on a copy, so nothing is written to the shared mapping.
create_remote_web_driver(written, capabilities_type, desired_capabilities) ==
    [desired_capabilities_object |->
        update(capabilities_of(written, capabilities_type),
               given_capabilities(desired_capabilities)),
     shared |-> written]

----------------------------------------------------------------------------
\* WebDriver objects

\* a timeout no keyword has sent to the driver yet, an attribute not set
Unset == -1

\* the URL of a remote selenium server
RemoteUrl == Url(0)

\* A driver started by this run.  A local driver runs its own server
\* (command_executor._url) and driver process (service.process.pid).
NewDriver(h, remote, script_timeout, implicit_wait) ==
    [kind |-> IF remote THEN "remote" ELSE "local",
     session_id |-> Sid(h),
     url |-> IF remote THEN RemoteUrl ELSE Url(h),
     pid |-> None,
     service_pid |-> IF remote THEN None ELSE PyInt(h),
     script_timeout |-> script_timeout,
     implicit_wait |-> implicit_wait,
     speed |-> Unset,
     patches |-> 0,
     quits |-> 0]

\* _ReusableDriver(saved_curl, saved_sid) with driver.pid = session_pid
ReusableDriver(saved_curl, saved_sid, session_pid) ==
    [kind |-> "reusable",
     session_id |-> saved_sid,
     url |-> saved_curl,
     pid |-> session_pid,
     service_pid |-> None,
     script_timeout |-> Unset,
     implicit_wait |-> Unset,
     speed |-> Unset,
     patches |-> 0,
     quits |-> 0]

\* browser.quit() on each handle of the sequence hs
quit(ds, hs) ==
    [h \in 1..Len(ds) |->
        IF \E i \in 1..Len(hs) : hs[i] = h
        THEN [ds[h] EXCEPT !.quits = @ + Cardinality({i \in 1..Len(hs) : hs[i] = h})]
        ELSE ds[h]]

\* the calls made by sending cmd(arg) to each handle of hs, in order
send(hs, cmd, arg) == [i \in 1..Len(hs) |-> <<hs[i], cmd, arg>>]

----------------------------------------------------------------------------
\* robot.utils time strings

TimeStrings == {<<"0 seconds", 0>>, <<"5 seconds", 5>>, <<"10 seconds", 10>>,
                <<"10", 10>>}

\* timestr_to_secs(seconds); -1 stands for the ValueError of an invalid string
timestr_to_secs(t) ==
    IF \E e \in TimeStrings : e[1] = t
    THEN (CHOOSE e \in TimeStrings : e[1] = t)[2]
    ELSE -1

\* secs_to_timestr(secs)
secs_to_timestr(n) ==
    IF n = 0 THEN "0 seconds" ELSE IF n = 5 THEN "5 seconds" ELSE "10 seconds"

----------------------------------------------------------------------------
\* Results of a keyword

Return(op, arg, ret) == [op |-> op, arg |-> arg, ret |-> ret, err |-> NoError]

Raise(op, arg, err) == [op |-> op, arg |-> arg, ret |-> None, err |-> err]

NoBrowserIsOpen == <<"RuntimeError", "No browser is open">>

\* _current_browser() raises
no_current_browser == cache.current = NoCurrent

\* one entry of the registration log: the handle, the alias given and the
\* index the keyword returned (0 when it raised after registering)
Registration(h, alias, index) == [h |-> h, alias |-> alias, index |-> index]

----------------------------------------------------------------------------
\* Keywords: open and close

\* close_all_browsers that closes every open browser but keeps the cache's list
close_all_browsers_no_reset ==
    /\ cache' = [cache EXCEPT !.current = NoCurrent,
                              !.closed = {cache.browsers[i] : i \in 1..Len(cache.browsers)}]
    /\ drivers' = quit(drivers, close_all_quits(cache))
    /\ calls' = send(close_all_quits(cache), "quit", 0)
    /\ result' = Return("close_all_browsers", "", None)
    /\ registered' = <<>>
    /\ UNCHANGED <<DesiredCapabilities, speed_in_secs, files, timeout_in_secs, implicit_wait_in_secs>>

\* close_all_browsers that quits every browser of the cache, closed or not
close_all_browsers_quits_all ==
    /\ cache' = close_all(cache)
    /\ drivers' = quit(drivers, cache.browsers)
    /\ calls' = send(cache.browsers, "quit", 0)
    /\ result' = Return("close_all_browsers", "", None)
    /\ registered' = <<>>
    /\ UNCHANGED <<DesiredCapabilities, speed_in_secs, files, timeout_in_secs, implicit_wait_in_secs>>

\* close_all_browsers that calls cache.close() instead of cache.close_all()
close_all_browsers_closes_current ==
    /\ cache' = close(cache)
    /\ drivers' = quit(drivers, close_quits(cache))
    /\ calls' = send(close_quits(cache), "quit", 0)
    /\ result' = Return("close_all_browsers", "", None)
    /\ registered' = <<>>
    /\ UNCHANGED <<DesiredCapabilities, speed_in_secs, files, timeout_in_secs, implicit_wait_in_secs>>

close_all_browsers ==
    /\ cache' = close_all(cache)
    /\ drivers' = quit(drivers, close_all_quits(cache))
    /\ calls' = send(close_all_quits(cache), "quit", 0)
    /\ result' = Return("close_all_browsers", "", None)
    /\ registered' = <<>>
    /\ UNCHANGED <<DesiredCapabilities, speed_in_secs, files, timeout_in_secs, implicit_wait_in_secs>>

\* close_browser that quits the current browser without telling the cache
close_browser_keeps_current ==
    /\ drivers' = quit(drivers, close_quits(cache))
    /\ calls' = send(close_quits(cache), "quit", 0)
    /\ result' = Return("close_browser", "", None)
    /\ UNCHANGED <<DesiredCapabilities, speed_in_secs, cache, files, timeout_in_secs, implicit_wait_in_secs, registered>>

\* close_browser that also takes the closed browser out of the cache's list
close_browser_frees_index ==
    /\ cache' = [close(cache) EXCEPT
                    !.browsers = SelectSeq(cache.browsers,
                                           LAMBDA h : h # cache.current)]
    /\ drivers' = quit(drivers, close_quits(cache))
    /\ calls' = send(close_quits(cache), "quit", 0)
    /\ result' = Return("close_browser", "", None)
    /\ UNCHANGED <<DesiredCapabilities, speed_in_secs, files, timeout_in_secs, implicit_wait_in_secs, registered>>

\* close_browser that asks _current_browser() for the browser to close
close_browser_needs_current ==
    IF cache.current # NoCurrent
    THEN /\ cache' = close(cache)
         /\ drivers' = quit(drivers, close_quits(cache))
         /\ calls' = send(close_quits(cache), "quit", 0)
         /\ result' = Return("close_browser", "", None)
         /\ UNCHANGED <<DesiredCapabilities, speed_in_secs, files, timeout_in_secs, implicit_wait_in_secs, registered>>
    ELSE /\ calls' = <<>>
         /\ result' = Raise("close_browser", "", NoBrowserIsOpen)
         /\ UNCHANGED <<DesiredCapabilities, speed_in_secs, cache, drivers, files, timeout_in_secs,
                        implicit_wait_in_secs, registered>>

close_browser ==
    IF cache.current # NoCurrent
    THEN /\ cache' = close(cache)
         /\ drivers' = quit(drivers, close_quits(cache))
         /\ calls' = send(close_quits(cache), "quit", 0)
         /\ result' = Return("close_browser", "", None)
         /\ UNCHANGED <<DesiredCapabilities, speed_in_secs, files, timeout_in_secs, implicit_wait_in_secs, registered>>
    ELSE /\ calls' = <<>>
         /\ result' = Return("close_browser", "", None)
         /\ UNCHANGED <<DesiredCapabilities, speed_in_secs, cache, drivers, files, timeout_in_secs,
                        implicit_wait_in_secs, registered>>

\* open_browser that leaves a browser whose page did not load out of the cache
open_browser_forgets_unloaded(browser_name, alias, remote, made, loaded) ==
    LET func == get_browser_creation_function(browser_name)
        h == Len(drivers) + 1
        as_remote == remote \/ func \in RemoteOnly
    IN
    IF func = NoFunc
    THEN /\ result' = Raise("open_browser", alias,
                 <<"ValueError", browser_name, " is not a supported browser.">>)
         /\ calls' = <<>>
         /\ UNCHANGED <<DesiredCapabilities, speed_in_secs, cache, drivers, files, timeout_in_secs,
                        implicit_wait_in_secs, registered>>
    ELSE IF ~made
    THEN /\ result' = Raise("open_browser", alias, <<"WebDriverException">>)
         /\ calls' = <<>>
         /\ UNCHANGED <<DesiredCapabilities, speed_in_secs, cache, drivers, files, timeout_in_secs,
                        implicit_wait_in_secs, registered>>
    ELSE /\ h <= MaxHandles
         /\ drivers' = Append(drivers,
                 NewDriver(h, as_remote, timeout_in_secs, implicit_wait_in_secs))
         /\ calls' = <<<<h, "set_script_timeout", timeout_in_secs>>,
                       <<h, "implicitly_wait", implicit_wait_in_secs>>,
                       <<h, "get", 0>>>>
         /\ IF loaded
            THEN /\ cache' = register(cache, h, alias)
                 /\ result' = Return("open_browser", alias,
                                     PyInt(register_index(cache)))
                 /\ registered' = Append(registered,
                         Registration(h, alias, register_index(cache)))
            ELSE /\ result' = Raise("open_browser", alias, <<"WebDriverException">>)
                 /\ UNCHANGED <<cache, registered>>
         /\ UNCHANGED <<DesiredCapabilities, speed_in_secs, files, timeout_in_secs, implicit_wait_in_secs>>

\* _make_browser followed by browser.get(url) and cache.register.  made: the
\* creation function returned a driver; loaded: browser.get(url) returned.
open_browser(browser_name, alias, remote, made, loaded) ==
    LET func == get_browser_creation_function(browser_name)
        h == Len(drivers) + 1
        as_remote == remote \/ func \in RemoteOnly
    IN
    IF func = NoFunc
    THEN /\ result' = Raise("open_browser", alias,
                 <<"ValueError", browser_name, " is not a supported browser.">>)
         /\ calls' = <<>>
         /\ UNCHANGED <<DesiredCapabilities, speed_in_secs, cache, drivers, files, timeout_in_secs,
                        implicit_wait_in_secs, registered>>
    ELSE IF ~made
    THEN /\ result' = Raise("open_browser", alias, <<"WebDriverException">>)
         /\ calls' = <<>>
         /\ UNCHANGED <<DesiredCapabilities, speed_in_secs, cache, drivers, files, timeout_in_secs,
                        implicit_wait_in_secs, registered>>
    ELSE /\ h <= MaxHandles
         /\ drivers' = Append(drivers,
                 NewDriver(h, as_remote, timeout_in_secs, implicit_wait_in_secs))
         /\ calls' = <<<<h, "set_script_timeout", timeout_in_secs>>,
                       <<h, "implicitly_wait", implicit_wait_in_secs>>,
                       <<h, "get", 0>>>>
         /\ cache' = register(cache, h, alias)
         /\ IF loaded
            THEN /\ result' = Return("open_browser", alias,
                                     PyInt(register_index(cache)))
                 /\ registered' = Append(registered,
                         Registration(h, alias, register_index(cache)))
            ELSE /\ result' = Raise("open_browser", alias, <<"WebDriverException">>)
                 /\ registered' = Append(registered, Registration(h, alias, 0))
         /\ UNCHANGED <<DesiredCapabilities, speed_in_secs, files, timeout_in_secs, implicit_wait_in_secs>>

\* a message that names the token as it was looked up, not as it was given
unsupported_browser_as_looked_up(browser_name) ==
    <<"ValueError", remove_spaces(lower(browser_name)), " is not a supported browser.">>

\* ValueError(browser_name + " is not a supported browser.")
unsupported_browser(browser_name) ==
    <<"ValueError", browser_name, " is not a supported browser.">>

EdgeNotSupported ==
    <<"ValueError", "Edge is not a supported browser with your version of Selenium python library. Please, upgrade to minimum required version 2.47.0.">>

\* the arguments of a _make_browser call, kept with its result
MakeArgs(r, desired_capabilities, remote) ==
    r @@ [desired_capabilities |-> desired_capabilities, remote |-> remote]

\* _make_browser(browser_name, desired_capabilities, None, remote), called on
\* its own.  has_edge: this selenium has webdriver.Edge; made: the webdriver
\* class returned a driver.  A remote session is created by
\* _create_remote_web_driver with the merged capabilities; a local one by the
\* family's webdriver class without arguments.
make_browser(browser_name, desired_capabilities, remote, has_edge, made) ==
    LET func == get_browser_creation_function(browser_name)
        h == Len(drivers) + 1
        r == create_remote_web_driver(DesiredCapabilities,
                    desired_cap_type(func), desired_capabilities)
    IN
    IF func = NoFunc
    THEN /\ result' = MakeArgs(Raise("_make_browser", browser_name,
                 unsupported_browser(browser_name)), desired_capabilities, remote)
         /\ calls' = <<>>
         /\ UNCHANGED <<DesiredCapabilities, speed_in_secs, cache, drivers, files,
                        timeout_in_secs, implicit_wait_in_secs, registered>>
    ELSE IF func = "_make_edge" /\ ~has_edge
    THEN /\ result' = MakeArgs(Raise("_make_browser", browser_name,
                 EdgeNotSupported), desired_capabilities, remote)
         /\ calls' = <<>>
         /\ UNCHANGED <<DesiredCapabilities, speed_in_secs, cache, drivers, files,
                        timeout_in_secs, implicit_wait_in_secs, registered>>
    ELSE IF remote /\ capabilities_unparsable(desired_capabilities)
    THEN /\ result' = MakeArgs(Raise("_make_browser", browser_name,
                 <<"ValueError">>), desired_capabilities, remote)
         /\ calls' = <<>>
         /\ UNCHANGED <<DesiredCapabilities, speed_in_secs, cache, drivers, files,
                        timeout_in_secs, implicit_wait_in_secs, registered>>
    ELSE IF ~made
    THEN /\ result' = MakeArgs(Raise("_make_browser", browser_name,
                 <<"WebDriverException">>), desired_capabilities, remote)
         /\ calls' = <<>>
         /\ DesiredCapabilities' = IF remote THEN r.shared ELSE DesiredCapabilities
         /\ UNCHANGED <<speed_in_secs, cache, drivers, files, timeout_in_secs,
                        implicit_wait_in_secs, registered>>
    ELSE /\ h <= MaxHandles
         /\ drivers' = Append(drivers,
                 NewDriver(h, remote \/ func \in RemoteOnly,
                           timeout_in_secs, implicit_wait_in_secs))
         /\ calls' = <<IF remote
                       THEN <<h, "webdriver.Remote", r.desired_capabilities_object>>
                       ELSE <<h, webdriver_type(func), None>>,
                       <<h, "set_script_timeout", timeout_in_secs>>,
                       <<h, "implicitly_wait", implicit_wait_in_secs>>>>
         /\ DesiredCapabilities' = IF remote THEN r.shared ELSE DesiredCapabilities
         /\ result' = MakeArgs(Return("_make_browser", browser_name, <<"driver", h>>),
                               desired_capabilities, remote)
         /\ UNCHANGED <<speed_in_secs, cache, files, timeout_in_secs, implicit_wait_in_secs,
                        registered>>

\* _parse_capabilities_string(capabilities_string), called on its own
parse_capabilities(capabilities_string) ==
    /\ result' = IF parses(capabilities_string)
                 THEN Return("_parse_capabilities_string", capabilities_string,
                             CapDict(parse_capabilities_string(capabilities_string)))
                 ELSE Raise("_parse_capabilities_string", capabilities_string,
                            <<"ValueError">>)
    /\ calls' = <<>>
    /\ UNCHANGED <<DesiredCapabilities, speed_in_secs, cache, drivers, files, timeout_in_secs,
                   implicit_wait_in_secs, registered>>

\* create_webdriver that registers the driver without its alias
create_webdriver_drops_alias(driver_name, alias, kwargs, made) ==
    /\ kwargs = "dict" /\ made /\ strip(driver_name) \in WebDriverClasses
    /\ Len(drivers) < MaxHandles
    /\ drivers' = Append(drivers, NewDriver(Len(drivers) + 1, FALSE, Unset, Unset))
    /\ calls' = <<>>
    /\ cache' = register(cache, Len(drivers) + 1, NoAlias)
    /\ result' = Return("create_webdriver", alias, PyInt(register_index(cache)))
    /\ registered' = Append(registered,
            Registration(Len(drivers) + 1, alias, register_index(cache)))
    /\ UNCHANGED <<DesiredCapabilities, speed_in_secs, files, timeout_in_secs, implicit_wait_in_secs>>

\* create_webdriver that refuses an alias the cache has already bound
create_webdriver_rejects_used_alias(driver_name, alias, kwargs, made) ==
    /\ kwargs = "dict" /\ made /\ strip(driver_name) \in WebDriverClasses
    /\ Len(drivers) < MaxHandles
    /\ IF alias \in DOMAIN cache.aliases
       THEN /\ result' = Raise("create_webdriver", alias,
                    <<"RuntimeError", "alias in use">>)
            /\ calls' = <<>>
            /\ UNCHANGED <<DesiredCapabilities, speed_in_secs, cache, drivers, registered>>
       ELSE /\ drivers' = Append(drivers,
                    NewDriver(Len(drivers) + 1, FALSE, Unset, Unset))
            /\ calls' = <<>>
            /\ cache' = register(cache, Len(drivers) + 1, alias)
            /\ result' = Return("create_webdriver", alias,
                                PyInt(register_index(cache)))
            /\ registered' = Append(registered,
                    Registration(Len(drivers) + 1, alias, register_index(cache)))
    /\ UNCHANGED <<DesiredCapabilities, speed_in_secs, files, timeout_in_secs, implicit_wait_in_secs>>

\* kwargs: "dict", "not_dict" (kwargs is no dictionary) or "duplicate" (a name
\* given both in kwargs and as keyword argument); made: the class returned a driver
create_webdriver(driver_name, alias, kwargs, made) ==
    LET name == strip(driver_name)
        h == Len(drivers) + 1
        fail(err) ==
            /\ result' = Raise("create_webdriver", alias, err)
            /\ calls' = <<>>
            /\ UNCHANGED <<DesiredCapabilities, speed_in_secs, cache, drivers, files, timeout_in_secs,
                           implicit_wait_in_secs, registered>>
    IN
    IF kwargs = "not_dict"
    THEN fail(<<"RuntimeError", "kwargs must be a dictionary.">>)
    ELSE IF kwargs = "duplicate"
    THEN fail(<<"RuntimeError", "Got multiple values for argument">>)
    ELSE IF name \notin WebDriverClasses
    THEN fail(<<"RuntimeError", "'", name, "' is not a valid WebDriver name">>)
    ELSE IF ~made
    THEN fail(<<"WebDriverException">>)
    ELSE /\ h <= MaxHandles
         /\ drivers' = Append(drivers,
                 NewDriver(h, name = <<"R", "e", "m", "o", "t", "e">>, Unset, Unset))
         /\ calls' = <<>>
         /\ cache' = register(cache, h, alias)
         /\ result' = Return("create_webdriver", alias, PyInt(register_index(cache)))
         /\ registered' = Append(registered,
                 Registration(h, alias, register_index(cache)))
         /\ UNCHANGED <<DesiredCapabilities, speed_in_secs, files, timeout_in_secs, implicit_wait_in_secs>>

----------------------------------------------------------------------------
\* Keywords: switch

\* switch_browser that selects the browser next to the one asked for
switch_browser_off_by_one(index_or_alias) ==
    /\ get_connection(cache, index_or_alias) # NoCurrent
    /\ cache' = [cache EXCEPT !.current =
            cache.browsers[(resolve_alias_or_index(cache, index_or_alias)
                            % Len(cache.browsers)) + 1]]
    /\ calls' = <<>>
    /\ result' = Return("switch_browser", index_or_alias, None)
    /\ UNCHANGED <<DesiredCapabilities, speed_in_secs, drivers, files, timeout_in_secs, implicit_wait_in_secs,
                   registered>>

\* switch_browser that loses the current browser when the lookup fails
switch_browser_clears_current(index_or_alias) ==
    IF get_connection(cache, index_or_alias) # NoCurrent
    THEN /\ cache' = switch(cache, index_or_alias)
         /\ calls' = <<>>
         /\ result' = Return("switch_browser", index_or_alias, None)
         /\ UNCHANGED <<DesiredCapabilities, speed_in_secs, drivers, files, timeout_in_secs, implicit_wait_in_secs,
                        registered>>
    ELSE /\ cache' = [cache EXCEPT !.current = NoCurrent]
         /\ result' = Raise("switch_browser", index_or_alias,
                 <<"RuntimeError", "No browser with index or alias '",
                   index_or_alias, "' found.">>)
         /\ calls' = <<>>
         /\ UNCHANGED <<DesiredCapabilities, speed_in_secs, drivers, files, timeout_in_secs, implicit_wait_in_secs,
                        registered>>

switch_browser(index_or_alias) ==
    IF get_connection(cache, index_or_alias) # NoCurrent
    THEN /\ cache' = switch(cache, index_or_alias)
         /\ calls' = <<>>
         /\ result' = Return("switch_browser", index_or_alias, None)
         /\ UNCHANGED <<DesiredCapabilities, speed_in_secs, drivers, files, timeout_in_secs, implicit_wait_in_secs,
                        registered>>
    ELSE /\ result' = Raise("switch_browser", index_or_alias,
                 <<"RuntimeError", "No browser with index or alias '",
                   index_or_alias, "' found.">>)
         /\ calls' = <<>>
         /\ UNCHANGED <<DesiredCapabilities, speed_in_secs, cache, drivers, files, timeout_in_secs,
                        implicit_wait_in_secs, registered>>

----------------------------------------------------------------------------
\* Keywords: save and restore

NoFiles == [f \in {} |-> <<>>]

\* open(file, 'w+'), the writes and close()
write_file(fs, file, lines) ==
    [f \in (DOMAIN fs) \cup {file} |-> IF f = file THEN lines ELSE fs[f]]

\* os.remove(file)
remove_file(fs, file) == [f \in (DOMAIN fs) \ {file} |-> fs[f]]

\* the k-th readline() of a file, newline removed; '' at the end of the file
readline(lines, k) == IF k <= Len(lines) THEN lines[k] ELSE EmptyStr

\* "session_%s.tmp" % name
session_file(name) == <<"session_", name, ".tmp">>

\* session_name that never looks up the alias
session_name_index_only(c) == ToStr(current_index(c))

\* inv_dict.get(current_index, current_index): the alias bound to the current
\* index, else the index
session_name(c) ==
    IF \E a \in DOMAIN c.aliases : c.aliases[a] = current_index(c)
    THEN CHOOSE a \in DOMAIN c.aliases : c.aliases[a] = current_index(c)
    ELSE ToStr(current_index(c))

\* driver_pid that looks at the pid attribute of a restored driver only
driver_pid_restored_only(d) == d.pid

\* pid: the pid attribute of a restored driver, else the driver service's pid
driver_pid(d) == IF d.pid # None THEN d.pid ELSE d.service_pid

\* session_lines that writes the server URL before the session id
session_lines_url_first(sid, curl, pid) ==
    IF pid # None
    THEN <<Format(curl), Format(sid), Format(pid)>>
    ELSE <<Format(curl), Format(sid)>>

\* the lines written to the session file: "%s\n" % sid, "%s\n" % curl and,
\* if pid is not None, "%s\n" % pid
session_lines(sid, curl, pid) ==
    IF pid # None
    THEN <<Format(sid), Format(curl), Format(pid)>>
    ELSE <<Format(sid), Format(curl)>>

\* file: None, '' or a file name
save_webdriver(file) ==
    IF no_current_browser
    THEN /\ result' = Raise("save_webdriver", file, NoBrowserIsOpen)
         /\ calls' = <<>>
         /\ UNCHANGED <<DesiredCapabilities, speed_in_secs, cache, drivers, files, timeout_in_secs,
                        implicit_wait_in_secs, registered>>
    ELSE LET cb == drivers[cache.current]
             sid == cb.session_id
             curl == cb.url
             pid == driver_pid(cb)
             name == IF file = EmptyStr THEN session_file(session_name(cache))
                     ELSE file
         IN
         IF file = None
         THEN /\ result' = Return("save_webdriver", file, <<sid, curl, pid>>)
              /\ calls' = <<>>
              /\ UNCHANGED <<DesiredCapabilities, speed_in_secs, cache, drivers, files, timeout_in_secs,
                             implicit_wait_in_secs, registered>>
         ELSE /\ files' = write_file(files, name, session_lines(sid, curl, pid))
              /\ result' = Return("save_webdriver", file, name)
              /\ calls' = <<<<0, "write", name>>>>
              /\ UNCHANGED <<DesiredCapabilities, speed_in_secs, cache, drivers, timeout_in_secs,
                             implicit_wait_in_secs, registered>>

\* The GetSessionData request needs a server URL and a session id
can_reconnect(saved_curl, saved_sid) ==
    /\ Len(saved_curl) = 2 /\ saved_curl[1] = "url"
    /\ Len(saved_sid) = 2 /\ saved_sid[1] = "sid"

\* start_session that takes any answer for the session data
start_session_silent(saved_curl, saved_sid, reconnected) == TRUE

\* _ReusableDriver.start_session returns.  reconnected: the server still
\* holds the session and answers GetSessionData
start_session(saved_curl, saved_sid, reconnected) ==
    reconnected /\ can_reconnect(saved_curl, saved_sid)

\* restore_webdriver without the check of its arguments
no_source_unchecked(alias, file) == FALSE

\* neither a file nor an alias to derive the file name from
no_source(alias, file) == file = None /\ alias = NoAlias

\* a default file name that lacks the extension
restore_file_name_no_tmp(alias, file) ==
    IF file = None THEN <<"session_", alias>> ELSE file

\* the file restore_webdriver opens
restore_file_name(alias, file) ==
    IF file = None THEN session_file(alias) ELSE file

\* a finally clause that removes the file whenever delete_file is set
deletes_file_always(delete_file, session_id, session_url, ok) == delete_file

\* os.remove after the try block instead of in its finally clause
deletes_file_on_success(delete_file, session_id, session_url, ok) ==
    delete_file /\ session_id = None /\ session_url = None /\ ok

\* the finally clause removes the file; ok: the driver was constructed
deletes_file(delete_file, session_id, session_url, ok) ==
    delete_file /\ session_id = None /\ session_url = None

\* the arguments of a restore_webdriver call, kept with its result
RestoreArgs(r, file, session_id, session_url, delete_file) ==
    r @@ [file |-> file,
          explicit |-> (session_id # None \/ session_url # None),
          delete_file |-> delete_file]

\* restore_webdriver that registers again the handle the cache already holds
\* for the session id, instead of constructing a driver
restore_webdriver_reuses_handle(alias, file, session_id, session_url, session_pid, delete_file, reconnected) ==
    LET same == {x \in 1..Len(drivers) : drivers[x].session_id = session_id}
        h == IF same = {} THEN Len(drivers) + 1 ELSE CHOOSE x \in same : TRUE
    IN
    /\ session_id # None /\ session_url # None /\ reconnected
    /\ Len(drivers) < MaxHandles
    /\ drivers' = IF same = {}
                  THEN Append(drivers,
                           ReusableDriver(session_url, session_id, session_pid))
                  ELSE drivers
    /\ calls' = <<<<0, "reconnect", reconnected>>>>
    /\ cache' = register(cache, h, alias)
    /\ result' = RestoreArgs(Return("restore_webdriver", alias,
                                    PyInt(register_index(cache))),
                             file, session_id, session_url, delete_file)
    /\ registered' = Append(registered,
                            Registration(h, alias, register_index(cache)))
    /\ UNCHANGED <<DesiredCapabilities, speed_in_secs, files, timeout_in_secs, implicit_wait_in_secs>>

restore_webdriver(alias, file, session_id, session_url, session_pid, delete_file, reconnected) ==
    LET explicit == session_id # None \/ session_url # None
        name == restore_file_name(alias, file)
        h == Len(drivers) + 1
        args(r) == RestoreArgs(r, file, session_id, session_url, delete_file)
    IN
    IF ~explicit /\ no_source(alias, file)
    THEN /\ result' = args(Raise("restore_webdriver", alias,
                 <<"RuntimeError", "both alias and file cannot be None.">>))
         /\ calls' = <<>>
         /\ UNCHANGED <<DesiredCapabilities, speed_in_secs, cache, drivers, files, timeout_in_secs,
                        implicit_wait_in_secs, registered>>
    ELSE IF ~explicit /\ name \notin DOMAIN files
    THEN /\ result' = args(Raise("restore_webdriver", alias, <<"IOError">>))
         /\ calls' = <<<<0, "open", name>>>>
         /\ UNCHANGED <<DesiredCapabilities, speed_in_secs, cache, drivers, files, timeout_in_secs,
                        implicit_wait_in_secs, registered>>
    ELSE LET saved_sid == IF explicit THEN session_id
                          ELSE readline(files[name], 1)
             saved_curl == IF explicit THEN session_url
                           ELSE readline(files[name], 2)
             pid == IF explicit THEN session_pid
                    ELSE readline(files[name], 3)
             ok == start_session(saved_curl, saved_sid, reconnected)
             removes == deletes_file(delete_file, session_id, session_url, ok)
         IN
         /\ files' = IF removes THEN remove_file(files, name) ELSE files
         /\ calls' = (IF explicit THEN <<>> ELSE <<<<0, "open", name>>>>)
                     \o <<<<0, "reconnect", reconnected>>>>
                     \o (IF removes THEN <<<<0, "remove", name>>>> ELSE <<>>)
         /\ IF ok
            THEN /\ h <= MaxHandles
                 /\ drivers' = Append(drivers,
                         ReusableDriver(saved_curl, saved_sid, pid))
                 /\ cache' = register(cache, h, alias)
                 /\ result' = args(Return("restore_webdriver", alias,
                                          PyInt(register_index(cache))))
                 /\ registered' = Append(registered,
                         Registration(h, alias, register_index(cache)))
            ELSE /\ result' = args(Raise("restore_webdriver", alias,
                                         <<"WebDriverException">>))
                 /\ UNCHANGED <<DesiredCapabilities, speed_in_secs, cache, drivers, registered>>
         /\ UNCHANGED <<DesiredCapabilities, speed_in_secs, timeout_in_secs, implicit_wait_in_secs>>

\* int(self.pid) succeeds: the pid is an integer or the decimal text of one
is_int(pid) == Len(pid) = 2 /\ pid[1] \in {"int", "num"}

\* _ReusableDriver.stop_client() of handle h, as webdriver.Remote.quit() calls it.
\* killed: os.kill delivered the signal (else it raised an EnvironmentError:
\* the process is gone, or may not be signalled)
stop_client(h, killed) ==
    /\ h \in 1..Len(drivers)
    /\ drivers[h].kind = "reusable"
    /\ LET pid == drivers[h].pid IN
       IF pid # None /\ pid # EmptyStr
       THEN IF is_int(pid)
            THEN /\ calls' = <<<<h, "kill", pid[2]>>>>
                 /\ result' = Return("stop_client", ToStr(h),
                         IF killed THEN <<"info", "Stopping driver">>
                         ELSE <<"warn", "Failed to stop the driver">>)
            ELSE /\ calls' = <<>>
                 /\ result' = Raise("stop_client", ToStr(h), <<"ValueError">>)
       ELSE /\ calls' = <<>>
            /\ result' = Return("stop_client", ToStr(h),
                                <<"info", "No driver process found">>)
    /\ UNCHANGED <<DesiredCapabilities, speed_in_secs, cache, drivers, files, timeout_in_secs, implicit_wait_in_secs,
                   registered>>

----------------------------------------------------------------------------
\* Keywords: timeouts

\* browser.<cmd>(secs) on each handle of hs
set_timeouts(ds, hs, field, secs) ==
    [h \in 1..Len(ds) |->
        IF \E i \in 1..Len(hs) : hs[i] = h
        THEN IF field = "script_timeout"
             THEN [ds[h] EXCEPT !.script_timeout = secs]
             ELSE [ds[h] EXCEPT !.implicit_wait = secs]
        ELSE ds[h]]

\* the timeouts a keyword found when it was called, kept with its result
Found(r) ==
    r @@ [found |-> [timeout_in_secs |-> timeout_in_secs,
                     implicit_wait_in_secs |-> implicit_wait_in_secs,
                     drivers |-> drivers]]

\* set_selenium_timeout that walks cache.browsers, as set_selenium_speed does
set_selenium_timeout_all_browsers(seconds) ==
    /\ timestr_to_secs(seconds) >= 0
    /\ timeout_in_secs' = timestr_to_secs(seconds)
    /\ drivers' = set_timeouts(drivers, cache.browsers, "script_timeout",
                               timestr_to_secs(seconds))
    /\ calls' = send(cache.browsers, "set_script_timeout", timestr_to_secs(seconds))
    /\ result' = Return("set_selenium_timeout", seconds,
                        <<"str", secs_to_timestr(timeout_in_secs)>>)
    /\ UNCHANGED <<DesiredCapabilities, speed_in_secs, cache, files, implicit_wait_in_secs, registered>>

set_selenium_timeout(seconds) ==
    LET old_timeout == secs_to_timestr(timeout_in_secs)
        secs == timestr_to_secs(seconds)
    IN
    IF secs < 0
    THEN /\ result' = Raise("set_selenium_timeout", seconds, <<"ValueError">>)
         /\ calls' = <<>>
         /\ UNCHANGED <<DesiredCapabilities, speed_in_secs, cache, drivers, files, timeout_in_secs,
                        implicit_wait_in_secs, registered>>
    ELSE /\ timeout_in_secs' = secs
         /\ drivers' = set_timeouts(drivers, get_open_browsers(cache),
                                    "script_timeout", secs)
         /\ calls' = send(get_open_browsers(cache), "set_script_timeout", secs)
         /\ result' = Found(Return("set_selenium_timeout", seconds,
                                   <<"str", old_timeout>>))
         /\ UNCHANGED <<DesiredCapabilities, speed_in_secs, cache, files, implicit_wait_in_secs, registered>>

set_selenium_implicit_wait(seconds) ==
    LET old_wait == secs_to_timestr(implicit_wait_in_secs)
        secs == timestr_to_secs(seconds)
    IN
    IF secs < 0
    THEN /\ result' = Raise("set_selenium_implicit_wait", seconds, <<"ValueError">>)
         /\ calls' = <<>>
         /\ UNCHANGED <<DesiredCapabilities, speed_in_secs, cache, drivers, files, timeout_in_secs,
                        implicit_wait_in_secs, registered>>
    ELSE /\ implicit_wait_in_secs' = secs
         /\ drivers' = set_timeouts(drivers, get_open_browsers(cache),
                                    "implicit_wait", secs)
         /\ calls' = send(get_open_browsers(cache), "implicitly_wait", secs)
         /\ result' = Found(Return("set_selenium_implicit_wait", seconds,
                                   <<"str", old_wait>>))
         /\ UNCHANGED <<DesiredCapabilities, speed_in_secs, cache, files, timeout_in_secs, registered>>

----------------------------------------------------------------------------
\* Speed: the delay after each command

PyFloat(x) == <<"float", x>>

\* a _monkey_patch_speed that replaces browser.execute at every call
monkey_patch_speed_again(d) == [d EXCEPT !.patches = @ + 1]

\* _monkey_patch_speed(browser): browser.execute is kept as _base_execute and
\* replaced by the delaying execute, unless _base_execute is there already.
\* patches counts the replacements of browser.execute.
monkey_patch_speed(d) == IF d.patches = 0 THEN [d EXCEPT !.patches = 1] ELSE d

\* browser._speed = secs and _monkey_patch_speed(browser), for browser in hs
set_speeds(ds, hs, secs) ==
    [h \in 1..Len(ds) |->
        IF \E i \in 1..Len(hs) : hs[i] = h
        THEN monkey_patch_speed([ds[h] EXCEPT !.speed = secs])
        ELSE ds[h]]

set_selenium_speed(seconds) ==
    LET old_speed == speed_in_secs
        secs == timestr_to_secs(seconds)
    IN
    IF secs < 0
    THEN /\ result' = Raise("set_selenium_speed", seconds, <<"ValueError">>)
         /\ calls' = <<>>
         /\ UNCHANGED <<DesiredCapabilities, speed_in_secs, cache, drivers, files,
                        timeout_in_secs, implicit_wait_in_secs, registered>>
    ELSE /\ speed_in_secs' = secs
         /\ drivers' = set_speeds(drivers, cache.browsers, secs)
         /\ calls' = <<>>
         /\ result' = Return("set_selenium_speed", seconds, PyFloat(old_speed))
         /\ UNCHANGED <<DesiredCapabilities, cache, files, timeout_in_secs,
                        implicit_wait_in_secs, registered>>

RecursionError == <<"RuntimeError", "maximum recursion depth exceeded">>

\* One command of a keyword on the current browser: browser.execute(...).
\* Unpatched, it is the driver's own execute.  Patched once, it is the delaying
\* execute: _base_execute, then time.sleep(speed) if the browser's _speed is
\* above 0.  Patched again, _base_execute is the delaying execute itself, which
\* calls itself until the recursion limit.
execute ==
    /\ cache.current # NoCurrent
    /\ LET h == cache.current
           speed == IF drivers[h].speed # Unset THEN drivers[h].speed ELSE 0
       IN
       IF drivers[h].patches = 0
       THEN /\ calls' = <<<<h, "execute", 0>>>>
            /\ result' = Return("execute", "", None)
       ELSE IF drivers[h].patches = 1
       THEN /\ calls' = IF speed > 0
                        THEN <<<<h, "execute", 0>>, <<h, "sleep", speed>>>>
                        ELSE <<<<h, "execute", 0>>>>
            /\ result' = Return("execute", "", None)
       ELSE /\ calls' = <<>>
            /\ result' = Raise("execute", "", RecursionError)
    /\ UNCHANGED <<DesiredCapabilities, speed_in_secs, cache, drivers, files,
                   timeout_in_secs, implicit_wait_in_secs, registered>>

----------------------------------------------------------------------------
\* Keywords that pass one command to the current browser

\* a keyword that uses cache.current without asking _current_browser()
on_current_browser_unchecked(op, cmd) ==
    /\ IF no_current_browser
       THEN /\ result' = Raise(op, "", <<"RuntimeError", "No current browser">>)
            /\ calls' = <<>>
       ELSE /\ result' = Return(op, "", None)
            /\ calls' = <<<<cache.current, cmd, 0>>>>
    /\ UNCHANGED <<DesiredCapabilities, speed_in_secs, cache, drivers, files, timeout_in_secs, implicit_wait_in_secs,
                   registered>>

on_current_browser(op, cmd) ==
    /\ IF no_current_browser
       THEN /\ result' = Raise(op, "", NoBrowserIsOpen)
            /\ calls' = <<>>
       ELSE /\ result' = Return(op, "", None)
            /\ calls' = <<<<cache.current, cmd, 0>>>>
    /\ UNCHANGED <<DesiredCapabilities, speed_in_secs, cache, drivers, files, timeout_in_secs, implicit_wait_in_secs,
                   registered>>

close_window == on_current_browser("close_window", "close")

get_title == on_current_browser("get_title", "title")

go_to == on_current_browser("go_to", "get")

----------------------------------------------------------------------------
\* The library after __init__, in an empty working directory

DummyFile == <<"dummy.tmp">>

Init ==
    /\ cache = EmptyCache
    /\ drivers = <<>>
    /\ files = NoFiles
    /\ timeout_in_secs = 5
    /\ implicit_wait_in_secs = 0
    /\ calls = <<>>
    /\ result = Return("__init__", "", None)
    /\ registered = <<>>
    /\ speed_in_secs = 0
    /\ DesiredCapabilities = NoWrites

AliasArgs == {NoAlias, "2"}

SwitchArgs == {ToStr(n) : n \in 1..MaxHandles} \cup {"b"}

Firefox == <<"f", "f">>

Chrome == <<" ", "C", "h", "r", "o", "m", "e", " ">>

\* The cache life cycle: the keywords that register, select and close browsers
Next ==
    \/ close_all_browsers
    \/ close_browser
    \/ \E a \in AliasArgs : open_browser(Firefox, a, FALSE, TRUE, TRUE)
    \/ open_browser(Firefox, NoAlias, FALSE, TRUE, FALSE)
    \/ open_browser(<<"f", "i", "r", "e", "o", "x">>, NoAlias, FALSE, TRUE, TRUE)
    \/ create_webdriver(Chrome, "2", "dict", TRUE)
    \/ create_webdriver(<<"F", "a", "k", "e">>, NoAlias, "dict", TRUE)
    \/ \E x \in SwitchArgs : switch_browser(x)
    \/ restore_webdriver(NoAlias, None, Sid(0), RemoteUrl, None, TRUE, TRUE)
    \/ restore_webdriver(NoAlias, None, Sid(0), RemoteUrl, None, TRUE, FALSE)

Spec == Init /\ [][Next]_vars

\* The keywords that need the current browser, between registrations, switches
\* and closes
NextCurrent ==
    \/ close_all_browsers
    \/ close_browser
    \/ \E loaded \in BOOLEAN : open_browser(Firefox, "2", FALSE, TRUE, loaded)
    \/ create_webdriver(Chrome, NoAlias, "dict", TRUE)
    \/ \E x \in SwitchArgs : switch_browser(x)
    \/ \E f \in {None, DummyFile} : save_webdriver(f)
    \/ close_window
    \/ get_title
    \/ go_to

SpecCurrent == Init /\ [][NextCurrent]_vars

\* The timeout broadcast, between registrations, switches and closes
NextTimeout ==
    \/ close_all_browsers
    \/ close_browser
    \/ open_browser(Firefox, NoAlias, FALSE, TRUE, TRUE)
    \/ \E x \in SwitchArgs : switch_browser(x)
    \/ \E t \in {"10 seconds", "5 seconds", "soon"} : set_selenium_timeout(t)
    \/ set_selenium_implicit_wait("10")

SpecTimeout == Init /\ [][NextTimeout]_vars

\* A working directory that holds no file, or a file left there that is not a
\* session record: an empty one, or one with nothing but a first line
LeftFiles == {NoFiles,
              write_file(NoFiles, DummyFile, <<>>),
              write_file(NoFiles, DummyFile, <<Sid(0)>>)}

InitSession ==
    /\ cache = EmptyCache
    /\ drivers = <<>>
    /\ files \in LeftFiles
    /\ timeout_in_secs = 5
    /\ implicit_wait_in_secs = 0
    /\ calls = <<>>
    /\ result = Return("__init__", "", None)
    /\ registered = <<>>
    /\ speed_in_secs = 0
    /\ DesiredCapabilities = NoWrites

\* The session keywords are followed over this many registrations
MaxSessions == 2

\* Saving sessions to files and restoring them, between registrations and switches
NextSession ==
    \/ /\ Len(drivers) < MaxSessions
       /\ \E a \in AliasArgs, remote \in BOOLEAN :
              open_browser(Firefox, a, remote, TRUE, TRUE)
    \/ \E x \in SwitchArgs : switch_browser(x)
    \/ \E f \in {None, EmptyStr, DummyFile} : save_webdriver(f)
    \/ \E a \in AliasArgs, f \in {None, DummyFile}, d \in BOOLEAN, r \in BOOLEAN :
           /\ Len(drivers) < MaxSessions \/ ~r
           /\ restore_webdriver(a, f, None, None, None, d, r)

SpecSession == InitSession /\ [][NextSession]_vars

\* Restoring from a session id and URL, in a directory that holds session files
NextExplicit ==
    \/ /\ Len(drivers) < MaxSessions
       /\ open_browser(Firefox, "2", FALSE, TRUE, TRUE)
    \/ \E f \in {EmptyStr, DummyFile} : save_webdriver(f)
    \/ /\ Len(drivers) < MaxSessions
       /\ \E a \in AliasArgs, f \in {None, DummyFile}, d \in BOOLEAN :
              restore_webdriver(a, f, None, None, None, d, TRUE)
    \/ /\ Len(drivers) < MaxSessions
       /\ \E a \in AliasArgs, f \in {None, DummyFile}, i \in {None, Sid(0)},
             u \in {None, RemoteUrl}, d \in BOOLEAN, r \in BOOLEAN :
              /\ i # None \/ u # None
              /\ restore_webdriver(a, f, i, u, None, d, r)

SpecExplicit == InitSession /\ [][NextExplicit]_vars

\* The values restore_webdriver is given as session_pid: none, an integer, the
\* text of one, and a text that is no number
PidArgs == {None, PyInt(7), Num(7), <<"str", "abc">>}

\* Stopping the driver process of a restored session
NextStop ==
    \/ /\ Len(drivers) < MaxSessions
       /\ \E remote \in BOOLEAN : open_browser(Firefox, "2", remote, TRUE, TRUE)
    \/ save_webdriver(EmptyStr)
    \/ /\ Len(drivers) < MaxSessions
       /\ restore_webdriver("2", None, None, None, None, FALSE, TRUE)
    \/ /\ Len(drivers) < MaxSessions
       /\ \E pid \in PidArgs :
              restore_webdriver(NoAlias, None, Sid(0), RemoteUrl, pid, TRUE, TRUE)
    \/ \E x \in SwitchArgs : switch_browser(x)
    \/ \E h \in 1..MaxHandles, killed \in BOOLEAN : stop_client(h, killed)

SpecStop == Init /\ [][NextStop]_vars

\* The browser factory: _make_browser and _parse_capabilities_string called
\* on their own, as the unit tests call them

\* browser name tokens: the names of the unit tests, the other families, and
\* tokens that are no browser name
BrowserTokens == {
    <<"f", "f">>,
    <<"f", "i", "r", "E", "f", "O", "x">>,
    <<"i", "e">>,
    <<"I", "n", "t", "e", "r", "n", "e", "t", " ", "E", "x", "p", "l", "o", "r", "e", "r">>,
    <<"g", "O", "O", "g", "l", "E", "c", "h", "r", "O", "m", "E">>,
    <<"g", "c">>,
    <<"c", "h", "r", "o", "m", "e">>,
    <<"O", "P", "E", "R", "A">>,
    <<"P", "H", "A", "N", "T", "O", "M", "J", "S">>,
    <<"h", "t", "m", "l", "u", "n", "i", "t">>,
    <<"h", "t", "m", "l", "u", "n", "i", "t", "w", "i", "t", "h", "j", "s">>,
    <<"a", "n", "d", "r", "o", "i", "d">>,
    <<"i", "p", "h", "o", "n", "e">>,
    <<"s", "a", "f", "a", "r", "i">>,
    <<"E", "d", "g", "e">>,
    <<"f", "i", "r", "e", "o", "x">>,
    <<"F", "i", "r", "e", " ", "O", "x">>,
    <<"f", "\t", "f">>,
    <<>>}

InternetExplorer == <<"I", "n", "t", "e", "r", "n", "e", "t", " ", "E", "x", "p", "l", "o", "r", "e", "r">>

Edge == <<"E", "d", "g", "e">>

FireOx == <<"F", "i", "r", "e", " ", "O", "x">>

TabbedFf == <<"f", "\t", "f">>

\* tokens of the remote sessions
RemoteTokens == {<<"c", "h", "r", "o", "m", "e">>, <<"f", "f">>, <<"h", "t", "m", "l", "u", "n", "i", "t">>}

Key1Val1Key2Val2 == <<"k", "e", "y", "1", ":", "v", "a", "l", "1", ",", "k", "e", "y", "2", ":", "v", "a", "l", "2">>

ProxyCapabilities == <<"p", "r", "o", "x", "y", "T", "y", "p", "e", ":", "m", "a", "n", "u", "a", "l", ",", "h", "t", "t", "p", "P", "r", "o", "x", "y", ":", "I", "P", ":", "p", "o", "r", "t">>

PlatformCapabilities == <<" ", "p", "l", "a", "t", "f", "o", "r", "m", " ", ":", " ", "L", "I", "N", "U", "X", " ", ",", "a", ":", "1", ",", "a", ":", "2">>

\* capability strings: those of the unit tests, the empty string, one with
\* blanks and a repeated key, and two with a pair that has no colon
CapabilityStrings == {
    Key1Val1Key2Val2, ProxyCapabilities, <<>>, PlatformCapabilities,
    <<"n", "o", "c", "o", "l", "o", "n">>,
    <<"a", ":", "1", ",", ",", "b", ":", "2">>}

SomeCap == (<<"s", "o", "m", "e", "_", "c", "a", "p">> :> <<"4", "2">>)

CustomName == (browserName :> <<"c", "u", "s", "t", "o", "m">>)

\* desired_capabilities arguments: None, strings and dicts
CapabilityArgs ==
    {None, CapDict(SomeCap), CapDict(CustomName), CapDict(EmptyDict)}
    \cup {CapString(s) : s \in CapabilityStrings}

\* the library after __init__; the arguments of the factory are character
\* sequences, the empty one standing for no argument
InitFactory ==
    /\ cache = EmptyCache
    /\ drivers = <<>>
    /\ files = NoFiles
    /\ timeout_in_secs = 5
    /\ implicit_wait_in_secs = 0
    /\ calls = <<>>
    /\ result = Return("__init__", <<>>, None)
    /\ registered = <<>>
    /\ speed_in_secs = 0
    /\ DesiredCapabilities = NoWrites

NextFactory ==
    \/ \E t \in BrowserTokens : make_browser(t, None, FALSE, TRUE, TRUE)
    \/ \E t \in RemoteTokens : \E c \in CapabilityArgs :
          make_browser(t, c, TRUE, TRUE, TRUE)
    \/ make_browser(Edge, None, FALSE, FALSE, TRUE)
    \/ \E remote \in BOOLEAN :
          make_browser(Chrome, CapDict(SomeCap), remote, TRUE, FALSE)
    \/ \E s \in CapabilityStrings : parse_capabilities(s)

SpecFactory == InitFactory /\ [][NextFactory]_vars

\* The global defaults: the keywords that set them and the keywords that
\* add a session to the cache
TimeoutArgs == {"5 seconds", "10 seconds"}

ImplicitWaitArgs == {"0 seconds", "10 seconds"}

NextDefaults ==
    \/ /\ Len(drivers) < MaxSessions
       /\ open_browser(Firefox, NoAlias, FALSE, TRUE, TRUE)
    \/ /\ Len(drivers) < MaxSessions
       /\ create_webdriver(Chrome, NoAlias, "dict", TRUE)
    \/ /\ Len(drivers) < MaxSessions
       /\ restore_webdriver(NoAlias, None, Sid(0), RemoteUrl, None, FALSE, TRUE)
    \/ close_browser
    \/ \E t \in TimeoutArgs : set_selenium_timeout(t)
    \/ \E t \in ImplicitWaitArgs : set_selenium_implicit_wait(t)

SpecDefaults == Init /\ [][NextDefaults]_vars

\* Page loads that fail: open_browser with and without alias, the page
\* loading or not, and the keywords that select and close browsers
NextLoad ==
    \/ \E a \in AliasArgs, loaded \in BOOLEAN :
          open_browser(Firefox, a, FALSE, TRUE, loaded)
    \/ \E x \in SwitchArgs : switch_browser(x)
    \/ close_browser
    \/ close_all_browsers

SpecLoad == Init /\ [][NextLoad]_vars

\* The speed: set_selenium_speed, commands on the current browser, and the
\* keywords that add, select and close browsers
SpeedArgs == {"0 seconds", "5 seconds", "10 seconds", "soon"}

NextSpeed ==
    \/ /\ Len(drivers) < MaxSessions
       /\ open_browser(Firefox, NoAlias, FALSE, TRUE, TRUE)
    \/ \E x \in SwitchArgs : switch_browser(x)
    \/ close_browser
    \/ \E t \in SpeedArgs : set_selenium_speed(t)
    \/ execute

SpecSpeed == Init /\ [][NextSpeed]_vars


----------------------------------------------------------------------------
\* Properties

RegistrationKeywords == {"open_browser", "create_webdriver", "restore_webdriver"}

\* the last keyword registered a browser and returned its index
Registered(r) == r.op \in RegistrationKeywords /\ r.err = NoError

\* the handles registered since the last close_all_browsers
RegisteredHandles == {registered[i].h : i \in 1..Len(registered)}

\* the handles registered under alias x, and under index x (the x-th
\* registration), since the last close_all_browsers
ByAlias(x) == {registered[i].h : i \in {j \in 1..Len(registered) :
                                          registered[j].alias = x}}

ByIndex(x) == {registered[i].h : i \in {j \in 1..Len(registered) : j = IntOf(x)}}

\* the handles the last keyword sent a command to
Contacted == {calls[i][1] : i \in 1..Len(calls)}

\* C1: since the last close_all_browsers (or the start), the k-th registration
\* returns the index k, so N registrations return 1..N in order and the first
\* registration after close_all_browsers returns 1.
C1_IndicesInOrder ==
    \A i \in 1..Len(registered) : registered[i].index \in {0, i}

\* a registration returned 1 although browsers had been registered before it
C1_Witness ==
    /\ Registered(result)
    /\ result.ret = PyInt(1)
    /\ Len(drivers) = 3
    /\ drivers[1].quits = 1 /\ drivers[2].quits = 1

\* C2: the current browser is none or a browser that was never quit; a closed
\* browser does not become current again.
C2_CurrentIsLive ==
    cache.current # NoCurrent => drivers[cache.current].quits = 0

\* a switch to the index of a browser closed by close_browser was refused while
\* another browser is current
C2_Witness ==
    /\ result.op = "switch_browser" /\ result.err # NoError
    /\ \E h \in ByIndex(result.arg) : drivers[h].quits = 1
    /\ cache.current # NoCurrent

\* C3: no browser is quit twice, and close_all_browsers quits exactly the
\* registered browsers that were not quit before.
C3_QuitOnce ==
    [][/\ \A h \in 1..Len(drivers) : drivers'[h].quits <= 1
       /\ result'.op = "close_all_browsers" =>
            \A h \in 1..Len(drivers) :
                drivers'[h].quits =
                    IF h \in RegisteredHandles /\ drivers[h].quits = 0
                    THEN 1 ELSE drivers[h].quits]_vars

\* close_all_browsers ran with one browser already closed and two still open
C3_Witness ==
    /\ result.op = "close_all_browsers"
    /\ Len(drivers) = 3
    /\ Contacted = {2, 3}
    /\ drivers[1].quits = 1

\* C4: set_selenium_timeout and set_selenium_implicit_wait send the new value
\* once to every browser that is open at the call, and to no other browser.
C4_TimeoutToOpenBrowsers ==
    [][(/\ result'.op \in {"set_selenium_timeout", "set_selenium_implicit_wait"}
        /\ result'.err = NoError) =>
            \A h \in 1..Len(drivers) :
                LET sent == {i \in 1..Len(calls') : calls'[i][1] = h} IN
                /\ Cardinality(sent) =
                       IF h \in RegisteredHandles /\ drivers[h].quits = 0
                       THEN 1 ELSE 0
                /\ \A i \in sent :
                       calls'[i] = <<h,
                           IF result'.op = "set_selenium_timeout"
                           THEN "set_script_timeout" ELSE "implicitly_wait",
                           timestr_to_secs(result'.arg)>>]_vars

\* the timeout went to the one open browser, not to the closed one beside it
C4_Witness ==
    /\ result.op = "set_selenium_timeout"
    /\ Len(registered) = 2
    /\ Len(calls) = 1
    /\ \E h \in RegisteredHandles : drivers[h].quits = 1

\* C5: after a successful switch_browser(x) the current browser is a browser
\* that was registered under the alias x or under the index x.
C5_SwitchSelectsRegistered ==
    (result.op = "switch_browser" /\ result.err = NoError) =>
        cache.current \in ByAlias(result.arg) \cup ByIndex(result.arg)

\* a switch by alias selected a browser other than the last one registered
C5_Witness ==
    /\ result.op = "switch_browser" /\ result.err = NoError
    /\ cache.current \in ByAlias(result.arg)
    /\ cache.current \notin ByIndex(result.arg)
    /\ cache.current # registered[Len(registered)].h

\* C6: switch_browser(x) with x bound to nothing raises, and whenever it raises
\* the message names x and the current browser, the index mapping and the alias
\* mapping stay as they were.
C6_SwitchNotFound ==
    [][result'.op = "switch_browser" =>
        /\ (ByAlias(result'.arg) = {} /\ ByIndex(result'.arg) = {}) =>
               result'.err # NoError
        /\ result'.err # NoError =>
               /\ result'.err = <<"RuntimeError", "No browser with index or alias '",
                                  result'.arg, "' found.">>
               /\ cache'.current = cache.current
               /\ cache'.browsers = cache.browsers
               /\ cache'.aliases = cache.aliases]_vars

\* a switch to an unbound name failed while a browser was current and an alias
\* was bound
C6_Witness ==
    /\ result.op = "switch_browser" /\ result.err # NoError
    /\ ByAlias(result.arg) = {} /\ ByIndex(result.arg) = {}
    /\ cache.current # NoCurrent
    /\ DOMAIN cache.aliases # {}

\* C7: between two close_all_browsers calls the indices returned by
\* registrations increase strictly, also across close_browser calls.
C7_IndicesIncrease ==
    \A i, j \in 1..Len(registered) :
        (i < j /\ registered[i].index # 0 /\ registered[j].index # 0) =>
            registered[i].index < registered[j].index

\* a browser was registered after an earlier one had been closed by close_browser
C7_Witness ==
    /\ Registered(result)
    /\ Len(registered) >= 2
    /\ drivers[registered[1].h].quits = 1
    /\ registered[1].index # 0

\* C8: after a successful registration the new browser is current, the returned
\* index is the cache's current index, and the index mapping and the alias
\* given both lead to the new browser.
C8_RegisteredIsCurrent ==
    Registered(result) =>
        LET e == registered[Len(registered)] IN
        /\ cache.current = e.h
        /\ result.ret = PyInt(current_index(cache))
        /\ cache.browsers[result.ret[2]] = e.h
        /\ result.arg # NoAlias => get_connection(cache, result.arg) = e.h

\* create_webdriver registered a second browser under an alias that was in use
C8_Witness ==
    /\ Registered(result) /\ result.op = "create_webdriver"
    /\ result.arg = "2"
    /\ Cardinality(ByAlias("2")) = 2

\* the keywords that pass a command to the current browser
NeedCurrent == {"save_webdriver", "close_window", "get_title", "go_to"}

\* C9: close_browser leaves no current browser; none stays none until a
\* successful switch_browser or a registration; and while there is no current
\* browser the keywords that need it raise 'No browser is open', contact no
\* browser, write no file and leave the cache as it was.
C9_NoBrowserIsOpen ==
    [][/\ result'.op = "close_browser" => cache'.current = NoCurrent
       /\ (cache.current = NoCurrent /\ cache'.current # NoCurrent) =>
              \/ result'.op = "switch_browser" /\ result'.err = NoError
              \/ Len(registered') = Len(registered) + 1
       /\ (cache.current = NoCurrent /\ result'.op \in NeedCurrent) =>
              /\ result'.err = NoBrowserIsOpen
              /\ calls' = <<>>
              /\ UNCHANGED <<cache, drivers, files>>]_vars

\* save_webdriver to a file was refused after close_browser, with another
\* browser still open in the cache
C9_Witness ==
    /\ result.op = "save_webdriver" /\ result.err = NoBrowserIsOpen
    /\ result.arg = DummyFile
    /\ cache.current = NoCurrent
    /\ \E h \in RegisteredHandles : drivers[h].quits = 1
    /\ \E h \in RegisteredHandles : drivers[h].quits = 0

\* C10: close_all_browsers leaves no current browser, and until the next
\* registration every switch_browser fails and selects nothing.
C10_EmptyAfterCloseAll ==
    [][/\ result'.op = "close_all_browsers" => cache'.current = NoCurrent
       /\ (registered = <<>> /\ result'.op = "switch_browser") =>
              result'.err # NoError /\ cache'.current = NoCurrent]_vars

\* after close_all_browsers had closed two browsers, switch_browser("2") failed
C10_Witness ==
    /\ result.op = "switch_browser" /\ result.arg = "2" /\ result.err # NoError
    /\ registered = <<>>
    /\ Len(drivers) = 2
    /\ drivers[1].quits = 1 /\ drivers[2].quits = 1

----------------------------------------------------------------------------
\* Properties of saving and restoring sessions

\* the last keyword was restore_webdriver reading a session file
RestoredFromFile(r) == r.op = "restore_webdriver" /\ ~r.explicit

\* the reconnect handshakes of the last keyword, and those the server answered
Reconnects(cs) == {i \in 1..Len(cs) : cs[i][2] = "reconnect"}

Answered(cs) == {i \in Reconnects(cs) : cs[i][3]}

\* C11: when restore_webdriver is given the file that save_webdriver has just
\* written for the current handle h, it reconnects, and if the server answers
\* it registers a new handle with h's session id and server URL; the file is
\* then gone if delete_file was set and is there unchanged if it was not.
C11_RoundTrip ==
    [][(/\ result.op = "save_webdriver" /\ result.err = NoError
        /\ result.arg # None
        /\ result'.op = "restore_webdriver" /\ ~result'.explicit
        /\ result'.file = result.ret)
       => /\ Reconnects(calls') # {}
          /\ Answered(calls') # {} =>
               /\ result'.err = NoError
               /\ cache'.current = Len(drivers) + 1
               /\ drivers'[cache'.current].session_id = drivers[cache.current].session_id
               /\ drivers'[cache'.current].url = drivers[cache.current].url
               /\ IF result'.delete_file
                  THEN result.ret \notin DOMAIN files'
                  ELSE /\ result.ret \in DOMAIN files'
                       /\ files'[result.ret] = files[result.ret]]_vars

\* the session of the first browser, saved to dummy.tmp, was restored as a
\* second handle and the file was kept
C11_Witness ==
    /\ RestoredFromFile(result) /\ result.err = NoError
    /\ result.file = DummyFile /\ ~result.delete_file
    /\ Len(drivers) = 2 /\ cache.current = 2
    /\ drivers[1].kind = "local" /\ drivers[2].kind = "reusable"
    /\ drivers[2].session_id = drivers[1].session_id
    /\ drivers[2].url = drivers[1].url
    /\ DummyFile \in DOMAIN files /\ files[DummyFile][1] = drivers[1].session_id

\* the last keyword was save_webdriver with the default file argument ''
SavedToDefault(r) ==
    r.op = "save_webdriver" /\ r.arg = EmptyStr /\ r.err = NoError

\* restore_webdriver(alias=A) with no file and no session arguments
RestoredByAlias(r) ==
    RestoredFromFile(r) /\ r.file = None /\ r.arg # NoAlias

IndexOf(h) == {i \in 1..Len(registered) : registered[i].h = h}

FileAccesses(cs) == {i \in 1..Len(cs) : cs[i][2] \in {"open", "write", "remove"}}

\* C15: restore_webdriver called with a session_id or a session_url opens no
\* file and removes none, whatever alias, file and delete_file are and whether
\* the reconnect succeeds or raises.
C15_ExplicitTouchesNoFile ==
    [][(result'.op = "restore_webdriver" /\ result'.explicit)
       => /\ files' = files
          /\ FileAccesses(calls') = {}]_vars

\* restore_webdriver("2", file=dummy.tmp, session_id=..., delete_file=True)
\* raised in a directory that holds dummy.tmp and session_2.tmp, and both are
\* still there
C15_Witness ==
    /\ result.op = "restore_webdriver" /\ result.explicit
    /\ result.arg = "2" /\ result.file = DummyFile /\ result.delete_file
    /\ result.err # NoError
    /\ DummyFile \in DOMAIN files /\ Len(files[DummyFile]) = 3
    /\ session_file("2") \in DOMAIN files

\* the last keyword opened a file that exists: the file name, else the empty set
FileRead(cs, fs) ==
    {cs[i][3] : i \in {j \in 1..Len(cs) : cs[j][2] = "open" /\ cs[j][3] \in DOMAIN fs}}

\* C16: when restore_webdriver has read a session file and delete_file is set,
\* the file is gone after the call, whether the call returned or raised.
C16_DeletedOnEveryPath ==
    [][(RestoredFromFile(result') /\ result'.delete_file)
       => \A f \in FileRead(calls', files) : f \notin DOMAIN files']_vars

\* restore_webdriver(alias="2") read session_2.tmp, which save_webdriver had
\* written, the server no longer had the session, the call raised and
\* session_2.tmp is gone
C16_Witness ==
    /\ RestoredByAlias(result) /\ result.delete_file
    /\ result.arg = "2"
    /\ result.err = <<"WebDriverException">>
    /\ calls[1] = <<0, "open", session_file("2")>>
    /\ Reconnects(calls) # {} /\ Answered(calls) = {}
    /\ session_file("2") \notin DOMAIN files
    /\ Len(drivers) = 1

\* C17: when restore_webdriver cannot open the session file, or the server does
\* not answer the reconnect handshake for the session id, the call raises and
\* registers nothing: the cache, with its indices, aliases and current
\* selection, and the registrations are as before.
C17_FailedRestoreRegistersNothing ==
    [][(/\ result'.op = "restore_webdriver"
        /\ \/ \E i \in 1..Len(calls') :
                  calls'[i][2] = "open" /\ calls'[i][3] \notin DOMAIN files
           \/ Reconnects(calls') # {} /\ Answered(calls') = {})
       => /\ result'.err # NoError
          /\ cache' = cache
          /\ registered' = registered
          /\ drivers' = drivers]_vars

\* with the first browser current and saved to session_2.tmp, the server did
\* not answer restore_webdriver(alias="2"): it raised and the first browser is
\* still the only one and current
C17_Witness ==
    /\ RestoredByAlias(result) /\ result.arg = "2" /\ ~result.delete_file
    /\ result.err = <<"WebDriverException">>
    /\ Reconnects(calls) # {} /\ Answered(calls) = {}
    /\ session_file("2") \in DOMAIN files
    /\ Len(files[session_file("2")]) = 3
    /\ Len(cache.browsers) = 1 /\ cache.current = 1
    /\ Len(registered) = 1

\* a parsing failure: an error that is neither the failure to open the file nor
\* the failure of the reconnect handshake
ParsingFailure(err) ==
    err \notin {NoError, <<"IOError">>, <<"WebDriverException">>}

\* C18 as stated: restore_webdriver from a session file with fewer than two
\* lines (an empty file, or a session id line only) raises a parsing failure
\* without a reconnect handshake and without registering a handle.
C18_MalformedFileRejected ==
    [][(/\ RestoredFromFile(result')
        /\ \E f \in FileRead(calls', files) : Len(files[f]) < 2)
       => /\ ParsingFailure(result'.err)
          /\ Reconnects(calls') = {}
          /\ cache' = cache
          /\ registered' = registered]_vars

\* C19: restore_webdriver with no alias, no file, no session id and no session
\* URL raises "both alias and file cannot be None." without opening or removing
\* a file and without a reconnect handshake, and the cache is as before.
C19_NoSourceIsRefused ==
    [][(/\ result'.op = "restore_webdriver" /\ ~result'.explicit
        /\ result'.file = None /\ result'.arg = NoAlias)
       => /\ result'.err = <<"RuntimeError", "both alias and file cannot be None.">>
          /\ calls' = <<>>
          /\ files' = files
          /\ cache' = cache
          /\ drivers' = drivers
          /\ registered' = registered]_vars

\* restore_webdriver() was refused with a browser open and its session saved in
\* session_2.tmp
C19_Witness ==
    /\ result.op = "restore_webdriver" /\ ~result.explicit
    /\ result.file = None /\ result.arg = NoAlias
    /\ result.err = <<"RuntimeError", "both alias and file cannot be None.">>
    /\ calls = <<>>
    /\ cache.current = 1
    /\ session_file("2") \in DOMAIN files

\* C20 as stated: a file written by save_webdriver holds the session id of the
\* current handle on line 1 and its server URL on line 2, and a third line
\* exactly when a process id is known: the pid attribute of a restored driver
\* unless it is None or '', else the pid of the driver service.
C20_ProcessIdLineOnlyIfKnown ==
    [][(result'.op = "save_webdriver" /\ result'.arg # None
        /\ result'.err = NoError)
       => LET cb == drivers[cache.current]
              lines == files'[result'.ret]
              known == \/ cb.pid \notin {None, EmptyStr}
                       \/ cb.pid = None /\ cb.service_pid # None
          IN
          /\ Len(lines) = IF known THEN 3 ELSE 2
          /\ lines[1] = cb.session_id
          /\ lines[2] = cb.url]_vars

----------------------------------------------------------------------------
\* Properties of the reconnected driver and of the cache's slots

\* C21 as stated: stop_client never raises, whatever pid the driver records; it
\* signals a process when a pid is recorded and none when the pid is None or ''.
C21_StopClientNeverRaises ==
    [][result'.op = "stop_client" =>
         /\ result'.err = NoError
         /\ \A h \in 1..Len(drivers) :
                ToStr(h) = result'.arg =>
                    (drivers[h].pid \in {None, EmptyStr} <=> calls' = <<>>)]_vars

\* C22: no two slots of the cache hold the same handle: every registration by
\* open_browser, create_webdriver or restore_webdriver appends one slot that
\* holds a driver constructed by that call, and restore_webdriver returns an
\* index other than the one that was current, also when the session id is that
\* of a handle already in the cache.
C22_NoSharedHandle ==
    [][/\ \A i, j \in 1..Len(cache'.browsers) :
              cache'.browsers[i] = cache'.browsers[j] => i = j
       /\ registered' # registered /\ registered' # <<>> =>
              /\ result'.op \in RegistrationKeywords
              /\ Len(drivers') = Len(drivers) + 1
              /\ cache'.browsers = Append(cache.browsers, Len(drivers'))
       /\ (result'.op = "restore_webdriver" /\ result'.err = NoError) =>
              /\ registered' # registered
              /\ result'.ret # PyInt(current_index(cache))]_vars

\* a second restore_webdriver of the same session id returned index 2 for a
\* second handle, with the first still in slot 1
C22_Witness ==
    /\ result.op = "restore_webdriver" /\ result.err = NoError
    /\ result.ret = PyInt(2)
    /\ cache.browsers = <<1, 2>> /\ cache.current = 2
    /\ drivers[1].kind = "reusable"
    /\ drivers[2].session_id = drivers[1].session_id

\* the handle registered last under alias x since the last close_all_browsers
Latest(x) ==
    registered[CHOOSE i \in 1..Len(registered) :
                   /\ registered[i].alias = x
                   /\ \A j \in 1..Len(registered) :
                          registered[j].alias = x => j <= i].h

\* C23: a registration under an alias already in use raises no error; then
\* switch_browser(alias) selects the handle registered last under it (if it is
\* still open), and an earlier handle keeps its index: switch_browser with its
\* index, where that text is not itself an alias in use, selects it.
C23_DuplicateAlias ==
    [][/\ (/\ result'.op \in {"open_browser", "create_webdriver"}
           /\ result'.arg # NoAlias /\ ByAlias(result'.arg) # {})
          => /\ result'.err = NoError
             /\ cache'.current = Len(drivers')
             /\ Len(drivers') = Len(drivers) + 1
       /\ (/\ result'.op = "switch_browser"
           /\ Cardinality(ByAlias(result'.arg)) >= 2
           /\ drivers[Latest(result'.arg)].quits = 0)
          => /\ result'.err = NoError
             /\ cache'.current = Latest(result'.arg)
       /\ (/\ result'.op = "switch_browser"
           /\ ByAlias(result'.arg) = {})
          => \A h \in ByIndex(result'.arg) :
                 (/\ drivers[h].quits = 0
                  /\ \E i, j \in 1..Len(registered) :
                         /\ i < j /\ registered[i].h = h
                         /\ registered[i].alias # NoAlias
                         /\ registered[j].alias = registered[i].alias)
                 => result'.err = NoError /\ cache'.current = h]_vars

\* two browsers were registered as "2"; switch_browser("2") selected the second,
\* and the first is still open in slot 1
C23_Witness ==
    /\ result.op = "switch_browser" /\ result.arg = "2" /\ result.err = NoError
    /\ Len(registered) = 2
    /\ registered[1].alias = "2" /\ registered[2].alias = "2"
    /\ cache.current = registered[2].h
    /\ cache.browsers[1] = registered[1].h
    /\ drivers[registered[1].h].quits = 0

\* C24: switch_browser takes its argument as an alias before it takes it as an
\* index: when the text is the alias of one handle and the index of another,
\* the handle registered last under the alias is selected (if still open).
C24_AliasBeforeIndex ==
    [][(/\ result'.op = "switch_browser"
        /\ ByAlias(result'.arg) # {}
        /\ ByIndex(result'.arg) # {}
        /\ Latest(result'.arg) \notin ByIndex(result'.arg)
        /\ drivers[Latest(result'.arg)].quits = 0)
       => /\ result'.err = NoError
          /\ cache'.current = Latest(result'.arg)
          /\ cache'.current \notin ByIndex(result'.arg)]_vars

\* the first browser was registered as "2" and a second without alias;
\* switch_browser("2") left the second and selected the first
C24_Witness ==
    /\ result.op = "switch_browser" /\ result.arg = "2" /\ result.err = NoError
    /\ Len(registered) >= 2
    /\ registered[1].alias = "2" /\ registered[2].alias = NoAlias
    /\ cache.current = registered[1].h
    /\ cache.browsers[2] = registered[2].h
    /\ drivers[registered[2].h].quits = 0

\* the names BROWSER_NAMES knows
KnownNames == {e[1] : e \in BROWSER_NAMES}

\* a token lower-cased and with its whitespace removed
WithoutWhitespace(t) == SelectSeq(lower(t), LAMBDA ch : ~IsSpace(ch))

\* a token lower-cased and with its space characters removed
WithoutSpaces(t) == SelectSeq(lower(t), LAMBDA ch : ch # " ")

\* C25: _make_browser with a token that, lower-cased and with whitespace
\* removed, is not one of the 15 known names raises ValueError with the message
\* '<token as given> is not a supported browser.' and constructs no driver.
C25_UnknownTokenIsNamed ==
    [][(/\ result'.op = "_make_browser"
        /\ WithoutWhitespace(result'.arg) \notin KnownNames)
       => /\ Cardinality(KnownNames) = 15
          /\ result'.err = <<"ValueError", result'.arg, " is not a supported browser.">>
          /\ drivers' = drivers
          /\ calls' = <<>>]_vars

\* after a driver was made, "Fire Ox" was refused under that name
C25_Witness ==
    /\ result.op = "_make_browser" /\ result.arg = FireOx
    /\ result.err = <<"ValueError", FireOx, " is not a supported browser.">>
    /\ Len(drivers) > 0

\* the browser family each known name stands for
Families == {
    <<<<"f", "f">>, "Firefox">>,
    <<<<"f", "i", "r", "e", "f", "o", "x">>, "Firefox">>,
    <<<<"i", "e">>, "InternetExplorer">>,
    <<<<"i", "n", "t", "e", "r", "n", "e", "t", "e", "x", "p", "l", "o", "r", "e", "r">>, "InternetExplorer">>,
    <<<<"g", "o", "o", "g", "l", "e", "c", "h", "r", "o", "m", "e">>, "Chrome">>,
    <<<<"g", "c">>, "Chrome">>,
    <<<<"c", "h", "r", "o", "m", "e">>, "Chrome">>,
    <<<<"o", "p", "e", "r", "a">>, "Opera">>,
    <<<<"p", "h", "a", "n", "t", "o", "m", "j", "s">>, "PhantomJS">>,
    <<<<"h", "t", "m", "l", "u", "n", "i", "t">>, "HtmlUnit">>,
    <<<<"h", "t", "m", "l", "u", "n", "i", "t", "w", "i", "t", "h", "j", "s">>, "HtmlUnitWithJs">>,
    <<<<"a", "n", "d", "r", "o", "i", "d">>, "Android">>,
    <<<<"i", "p", "h", "o", "n", "e">>, "Iphone">>,
    <<<<"s", "a", "f", "a", "r", "i">>, "Safari">>,
    <<<<"e", "d", "g", "e">>, "Edge">>}

FamilyOf(name) == (CHOOSE e \in Families : e[1] = name)[2]

\* the constructor that starts a local browser of each family
FamilyConstructor ==
    [Firefox |-> "webdriver.Firefox", InternetExplorer |-> "webdriver.Ie",
     Chrome |-> "webdriver.Chrome", Opera |-> "webdriver.Opera",
     PhantomJS |-> "webdriver.PhantomJS", HtmlUnit |-> "webdriver.Remote",
     HtmlUnitWithJs |-> "webdriver.Remote", Android |-> "webdriver.Remote",
     Iphone |-> "webdriver.Remote", Safari |-> "webdriver.Safari",
     Edge |-> "webdriver.Edge"]

\* a _make_browser step whose token is a known name under the normalisation
\* Normal selects the family of that name: the token is not refused as
\* unsupported, a local browser is started by the family's constructor, a
\* remote one by webdriver.Remote, and only Edge can be missing from selenium
SelectsFamily(Normal(_)) ==
    (/\ result'.op = "_make_browser"
     /\ Normal(result'.arg) \in KnownNames)
    => /\ result'.err # <<"ValueError", result'.arg, " is not a supported browser.">>
       /\ (result'.err = NoError /\ ~result'.remote)
          => calls'[1][2] = FamilyConstructor[FamilyOf(Normal(result'.arg))]
       /\ (result'.err = NoError /\ result'.remote)
          => calls'[1][2] = "webdriver.Remote"
       /\ result'.err = EdgeNotSupported
          => FamilyOf(Normal(result'.arg)) = "Edge"

\* C26 as stated: resolution is case-insensitive and ignores whitespace, so
\* every token that is a known name after lower-casing and removing whitespace
\* selects that name's family, synonyms selecting the same constructor.
C26_Original == [][SelectsFamily(WithoutWhitespace)]_vars

\* C26: browser-name resolution is case-insensitive and ignores space
\* characters: every token that is a known name after lower-casing and removing
\* spaces selects that name's family, and all synonyms of a family select the
\* same constructor; other whitespace is kept, so a token with a tab in it is
\* refused as unsupported.
C26_SpacesAndCaseIgnored ==
    [][/\ SelectsFamily(WithoutSpaces)
       /\ (/\ result'.op = "_make_browser"
           /\ \E i \in 1..Len(result'.arg) : result'.arg[i] = "\t")
          => result'.err = <<"ValueError", result'.arg, " is not a supported browser.">>]_vars

\* "Internet Explorer" started a local browser with webdriver.Ie
C26_Witness ==
    /\ result.op = "_make_browser" /\ result.arg = InternetExplorer
    /\ result.err = NoError
    /\ calls[1][2] = "webdriver.Ie"

\* the comma-separated pieces of s, each as its first and last position
Pieces(s) ==
    {p \in (1..(Len(s) + 1)) \X (0..Len(s)) :
        /\ p[1] <= p[2] + 1
        /\ p[1] = 1 \/ s[p[1] - 1] = ","
        /\ p[2] = Len(s) \/ s[p[2] + 1] = ","
        /\ \A i \in p[1]..p[2] : s[i] # ","}

\* the positions of the colons of a piece
Colons(s, p) == {i \in p[1]..p[2] : s[i] = ":"}

FirstColon(s, p) == CHOOSE i \in Colons(s, p) : \A j \in Colons(s, p) : i <= j

\* the trimmed text before and after the first colon of a piece
KeyOf(s, p) == strip(SubSeq(s, p[1], FirstColon(s, p) - 1))
ValueOf(s, p) == strip(SubSeq(s, FirstColon(s, p) + 1, p[2]))

\* C27: _parse_capabilities_string splits the string on commas and each pair
\* on its first colon only, trims keys and values and returns the mapping:
\* "key1:val1,key2:val2" gives {key1: val1, key2: val2}, a colon inside a value
\* is kept ("httpProxy:IP:port" gives httpProxy = "IP:port"), and the empty
\* string gives the empty mapping.
C27_ParseCapabilities ==
    [][result'.op = "_parse_capabilities_string"
       => LET s == result'.arg
              d == result'.ret[2]
          IN
          /\ s = <<>> => result'.ret = CapDict(EmptyDict)
          /\ s = Key1Val1Key2Val2
             => result'.ret = CapDict((<<"k", "e", "y", "1">> :> <<"v", "a", "l", "1">>)
                                      @@ (<<"k", "e", "y", "2">> :> <<"v", "a", "l", "2">>))
          /\ s = ProxyCapabilities
             => result'.ret = CapDict((<<"p", "r", "o", "x", "y", "T", "y", "p", "e">> :> <<"m", "a", "n", "u", "a", "l">>)
                                      @@ (<<"h", "t", "t", "p", "P", "r", "o", "x", "y">> :> <<"I", "P", ":", "p", "o", "r", "t">>))
          /\ (s # <<>> /\ \A p \in Pieces(s) : Colons(s, p) # {})
             => /\ result'.err = NoError
                /\ result'.ret[1] = "dict"
                /\ DOMAIN d = {KeyOf(s, p) : p \in Pieces(s)}
                /\ \A p \in Pieces(s) :
                      (\A q \in Pieces(s) : KeyOf(s, q) = KeyOf(s, p) => q[1] <= p[1])
                      => d[KeyOf(s, p)] = ValueOf(s, p)]_vars

\* "proxyType:manual,httpProxy:IP:port" was parsed and httpProxy kept its colon
C27_Witness ==
    /\ result.op = "_parse_capabilities_string" /\ result.arg = ProxyCapabilities
    /\ result.err = NoError
    /\ result.ret[2][<<"h", "t", "t", "p", "P", "r", "o", "x", "y">>] = <<"I", "P", ":", "p", "o", "r", "t">>

\* the capabilities a caller gave: the mapping itself, the mapping a string
\* stands for, or none
Given(desired_capabilities) ==
    IF desired_capabilities[1] = "dict" THEN desired_capabilities[2]
    ELSE IF desired_capabilities[1] = "str" /\ desired_capabilities[2] # <<>>
    THEN [k \in {KeyOf(desired_capabilities[2], p) :
                    p \in Pieces(desired_capabilities[2])} |->
            ValueOf(desired_capabilities[2],
                    CHOOSE p \in Pieces(desired_capabilities[2]) :
                       /\ KeyOf(desired_capabilities[2], p) = k
                       /\ \A q \in Pieces(desired_capabilities[2]) :
                             KeyOf(desired_capabilities[2], q) = k => q[1] <= p[1])]
    ELSE EmptyDict

\* the family whose defaults a remote session of the token starts from
DefaultsOf(t) ==
    CASE FamilyOf(WithoutSpaces(t)) = "Chrome" -> "CHROME"
      [] FamilyOf(WithoutSpaces(t)) = "Firefox" -> "FIREFOX"
      [] FamilyOf(WithoutSpaces(t)) = "HtmlUnit" -> "HTMLUNIT"

\* C28: creating a remote session merges the caller's capabilities over the
\* family defaults (a caller key overrides the default of the same key, the
\* other defaults are kept) and leaves the shared family defaults unchanged,
\* for capabilities given as a string or as a mapping.
C28_CapabilitiesMergedOnACopy ==
    [][(/\ result'.op = "_make_browser"
        /\ result'.remote
        /\ result'.err = NoError)
       => LET given == Given(result'.desired_capabilities)
              defaults == capabilities_of(DesiredCapabilities, DefaultsOf(result'.arg))
              sent == calls'[1][3]
          IN
          /\ calls'[1][2] = "webdriver.Remote"
          /\ DOMAIN sent = DOMAIN given \cup DOMAIN defaults
          /\ \A k \in DOMAIN given : sent[k] = given[k]
          /\ \A k \in DOMAIN defaults \ DOMAIN given : sent[k] = defaults[k]
          /\ DesiredCapabilities' = DesiredCapabilities
          /\ \A f \in DOMAIN DefaultCapabilities :
                capabilities_of(DesiredCapabilities', f) = DefaultCapabilities[f]]_vars

\* a remote chrome session was created with the platform given in a string put
\* over the default and the default browser name kept
C28_Witness ==
    /\ result.op = "_make_browser" /\ result.remote /\ result.err = NoError
    /\ result.desired_capabilities = CapString(PlatformCapabilities)
    /\ calls[1][3][platform] = <<"L", "I", "N", "U", "X">>
    /\ calls[1][3][browserName] = <<"c", "h", "r", "o", "m", "e">>
    /\ capabilities_of(DesiredCapabilities, "CHROME")[platform] = <<"A", "N", "Y">>

\* the handles the cache holds open
OpenHandles(c) == {c.browsers[i] : i \in 1..Len(c.browsers)} \ c.closed

\* C29: set_selenium_timeout returns the timeout that was in effect, in a form
\* it takes back: after old = set_selenium_timeout(x); set_selenium_timeout(old)
\* the library timeout and the script timeout of every open handle are what
\* they were before the first call (and so for set_selenium_implicit_wait).
C29_SetAndSetBack ==
    [][/\ (/\ result.op = "set_selenium_timeout" /\ result.err = NoError
           /\ result'.op = "set_selenium_timeout"
           /\ result'.arg = result.ret[2])
          => /\ result'.err = NoError
             /\ timeout_in_secs' = result.found.timeout_in_secs
             /\ \A h \in OpenHandles(cache') :
                   drivers'[h].script_timeout = result.found.drivers[h].script_timeout
       /\ (/\ result.op = "set_selenium_implicit_wait" /\ result.err = NoError
           /\ result'.op = "set_selenium_implicit_wait"
           /\ result'.arg = result.ret[2])
          => /\ result'.err = NoError
             /\ implicit_wait_in_secs' = result.found.implicit_wait_in_secs
             /\ \A h \in OpenHandles(cache') :
                   drivers'[h].implicit_wait = result.found.drivers[h].implicit_wait]_vars

\* C30: the global timeout and implicit wait apply to every future session: a
\* handle that open_browser, create_webdriver or restore_webdriver adds to the
\* cache after a global value was set has that value applied.
C30_DefaultsReachNewHandles ==
    [][(/\ result'.op \in {"open_browser", "create_webdriver", "restore_webdriver"}
        /\ result'.err = NoError
        /\ Len(drivers') = Len(drivers) + 1)
       => /\ timeout_in_secs # 5
             => drivers'[Len(drivers')].script_timeout = timeout_in_secs
          /\ implicit_wait_in_secs # 0
             => drivers'[Len(drivers')].implicit_wait = implicit_wait_in_secs]_vars

\* the handles open_browser registered although their page did not load
Unloaded == {registered[i].h : i \in {j \in 1..Len(registered) :
                                        registered[j].index = 0}}

\* C31: when open_browser has created the browser but the page does not load,
\* the browser is registered under the given alias and made current, taking
\* the next index, before the error is raised again; a later close_browser or
\* close_all_browsers then quits it.
C31_UnloadedIsRegistered ==
    [][/\ (/\ result'.op = "open_browser"
           /\ result'.err # NoError
           /\ Len(drivers') = Len(drivers) + 1)
          => /\ cache'.browsers = Append(cache.browsers, Len(drivers'))
             /\ cache'.current = Len(drivers')
             /\ result'.arg # NoAlias
                => /\ result'.arg \in DOMAIN cache'.aliases
                   /\ cache'.aliases[result'.arg] = Len(cache'.browsers)
             /\ result'.err = <<"WebDriverException">>
       /\ (/\ result'.op = "close_browser"
           /\ cache.current \in Unloaded
           /\ drivers[cache.current].quits = 0)
          => drivers'[cache.current].quits = 1
       /\ result'.op = "close_all_browsers"
          => \A h \in Unloaded : drivers[h].quits = 0 => drivers'[h].quits = 1]_vars

\* a browser opened as "2" whose page did not load was closed by close_browser
C31_Witness ==
    /\ result.op = "close_browser"
    /\ \E i \in 1..Len(registered) :
          /\ registered[i].index = 0 /\ registered[i].alias = "2"
          /\ drivers[registered[i].h].quits = 1
          /\ registered[i].h \in cache.closed

\* C32: close_browser called while no handle is current (an empty cache, or
\* directly after close_browser or close_all_browsers) raises no error, quits
\* no handle and leaves the cache as it is.
C32_CloseWithoutCurrent ==
    [][(result'.op = "close_browser" /\ cache.current = NoCurrent)
       => /\ result'.err = NoError
          /\ calls' = <<>>
          /\ drivers' = drivers
          /\ cache' = cache]_vars

\* close_browser closed the only browser, and a second close_browser did nothing
C32_Witness ==
    /\ result.op = "close_browser" /\ result.err = NoError
    /\ calls = <<>>
    /\ cache.current = NoCurrent
    /\ Len(cache.browsers) = 1
    /\ drivers[cache.browsers[1]].quits = 1

\* the handles the cache holds, open or closed
CacheHandles(c) == {c.browsers[i] : i \in 1..Len(c.browsers)}

\* C33: set_selenium_speed returns the previous speed, sets the new speed on
\* every handle in the cache and wraps each handle's execute at most once,
\* however often it is called: afterwards one command on such a handle runs the
\* original execute exactly once, followed by a single delay of the latest
\* speed, and by no delay when that speed is 0.
C33_SpeedSetAndWrappedOnce ==
    [][/\ (result'.op = "set_selenium_speed" /\ result'.err = NoError)
          => /\ result'.ret = <<"float", speed_in_secs>>
             /\ speed_in_secs' = timestr_to_secs(result'.arg)
             /\ \A h \in CacheHandles(cache) :
                   /\ drivers'[h].speed = speed_in_secs'
                   /\ drivers'[h].patches = 1
             /\ \A h \in 1..Len(drivers) :
                   h \notin CacheHandles(cache) => drivers'[h] = drivers[h]
       /\ (/\ result'.op = "execute"
           /\ drivers[cache.current].patches > 0)
          => /\ result'.err = NoError
             /\ {i \in 1..Len(calls') : calls'[i][2] = "execute"} = {1}
             /\ calls' = IF speed_in_secs > 0
                         THEN <<<<cache.current, "execute", 0>>,
                                <<cache.current, "sleep", speed_in_secs>>>>
                         ELSE <<<<cache.current, "execute", 0>>>>]_vars

\* with the speed at 10 seconds and a closed and an open browser in the
\* cache, both patched once, a command on the open one ran once and then
\* waited 10 seconds
C33_Witness ==
    /\ result.op = "execute" /\ result.err = NoError
    /\ speed_in_secs = 10
    /\ Len(cache.browsers) = 2
    /\ cache.closed # {}
    /\ \A h \in CacheHandles(cache) : drivers[h].speed = 10 /\ drivers[h].patches = 1
    /\ calls = <<<<cache.current, "execute", 0>>, <<cache.current, "sleep", 10>>>>

====
